---- MODULE Spec2Model ----
(***************************************************************************)
(* State-machine model of fc-optimizer: its service layer                  *)
(* (src/src/services/api.ts: the static reference cache, the retrying      *)
(* fetcher, the player normalizer and the SBC ranking cache) and its       *)
(* components (src/src/App.tsx: App, SBCList and the dashboard values).    *)
(*                                                                         *)
(* Every network request is a pending operation that a later step settles  *)
(* (fulfilled with a response body, or rejected with an error message).    *)
(* A JavaScript object's identity (a freshly built map or array) is kept   *)
(* as the index of the operation that built it.                            *)
(***************************************************************************)
EXTENDS Integers, Sequences, FiniteSets, TLC

VARIABLES
    now,                \* Date.now(), in ms
    epoch,              \* number of clearCache() calls so far
    issued,             \* requests issued so far, per endpoint
    cachedData,         \* api.ts:69
    staticDataPromise,  \* api.ts:70 (index into populations, or 0 for null)
    populations,        \* the async bodies created at api.ts:137
    staticCalls,        \* the fetchStaticData() calls made so far
    sbcCache,           \* api.ts:424
    sbcCalls,           \* the fetchAllSBCsWithDetails() calls made so far
    sentSids,           \* the session tokens sent in an X-UT-SID header so far
    fetchers,           \* the fetchWithRetry() calls, by the name they were given
    pp,                 \* the processPlayers() call
    app                 \* the state of App and SBCList and the memoized values

sbcVars == <<sbcCache, sbcCalls, sentSids>>

ppVars == <<fetchers, pp>>

vars == <<now, epoch, issued, cachedData, staticDataPromise, populations,
          staticCalls, sbcVars, ppVars, app>>

----------------------------------------------------------------------------
(* Bounds of the model *)

MaxStaticCalls == 3
MaxClears == 1

----------------------------------------------------------------------------
(* Values *)

Null == [null |-> TRUE]

NoError == ""

Errors == {"API Error: 500 Internal Server Error", "API Error: 429 Too Many Requests"}

Endpoints == {"players.json", "fc-core-data", "tradepile", "storagepile",
              "purchased/items", "sbs/sets", "vote/votes"}

\* Map.prototype.set on a map kept as a function
MapSet(m, k, v) == [x \in (DOMAIN m) \cup {k} |-> IF x = k THEN v ELSE m[x]]

EmptyMap == [x \in {} |-> Null]

\* a request that has not settled / has settled
Pending == [st |-> "pending", body |-> Null, err |-> NoError]
Ok(body) == [st |-> "ok", body |-> body, err |-> NoError]
Failed(e) == [st |-> "failed", body |-> Null, err |-> e]

----------------------------------------------------------------------------
(* Upstream reference data: the bodies the two reference endpoints answer   *)

\* RawPlayerData: id, first name f, last name l, common name c ("" when unset)
Raw(id, f, l, c) == [id |-> id, f |-> f, l |-> l, c |-> c]

PlayersJsonResponses ==
    { [LegendsPlayers |-> <<Raw(1, "Edson", "Nascimento", "Pele")>>,
       Players |-> <<Raw(2, "Lionel", "Messi", ""), Raw(2, "Leo", "Messi", "")>>],
      [LegendsPlayers |-> <<>>,
       Players |-> <<Raw(1, "Edson", "Arantes", "")>>] }

Club(id, name, sibling) == [eaId |-> id, name |-> name, siblingClubEaId |-> sibling]
Entity(id, name) == [eaId |-> id, name |-> name]

FutGGResponses ==
    { [clubs |-> <<Club(1, "Arsenal", 0), Club(2, "Milan", 3)>>,
       nations |-> <<Entity(1, "Brazil"), Entity(2, "Argentina")>>,
       leagues |-> <<Entity(1, "Premier League")>>],
      [clubs |-> <<Club(1, "Arsenal FC", 0)>>,
       nations |-> <<Entity(1, "Brasil")>>,
       leagues |-> <<Entity(1, "Premier League"), Entity(2, "Serie A")>>] }

\* api.ts:18-28: an image URL is a fixed path per category plus the id
getClubImageUrl(clubId) == <<"clubs/dark", clubId>>
getNationImageUrl(nationId) == <<"flags/light", nationId>>
getLeagueImageUrl(leagueId) == <<"leagues/dark", leagueId>>

EntityInfo(name, img) == [name |-> name, imgUrl |-> img]

AddClub(teams, club) ==
    LET t1 == MapSet(teams, club.eaId,
                     EntityInfo(club.name, getClubImageUrl(club.eaId)))
    IN IF club.siblingClubEaId # 0
       THEN MapSet(t1, club.siblingClubEaId,
                   EntityInfo(club.name, getClubImageUrl(club.siblingClubEaId)))
       ELSE t1

RECURSIVE AddClubs(_, _)
\* api.ts:105-111, the loop over response.data.clubs
AddClubs(m, s) == IF s = <<>> THEN m ELSE AddClubs(AddClub(m, Head(s)), Tail(s))

AddNation(nations, n) ==
    MapSet(nations, n.eaId, EntityInfo(n.name, getNationImageUrl(n.eaId)))

RECURSIVE AddNations(_, _)
\* api.ts:115-117
AddNations(m, s) == IF s = <<>> THEN m ELSE AddNations(AddNation(m, Head(s)), Tail(s))

AddLeague(leagues, l) ==
    MapSet(leagues, l.eaId, EntityInfo(l.name, getLeagueImageUrl(l.eaId)))

RECURSIVE AddLeagues(_, _)
\* api.ts:121-123
AddLeagues(m, s) == IF s = <<>> THEN m ELSE AddLeagues(AddLeague(m, Head(s)), Tail(s))

\* fetchFutGGData, after its request has answered
BuildFutGGData(response) ==
    [teams |-> AddClubs(EmptyMap, response.clubs),
     nations |-> AddNations(EmptyMap, response.nations),
     leagues |-> AddLeagues(EmptyMap, response.leagues)]

AddPlayer(m, player) == MapSet(m, player.id, player)

RECURSIVE AddPlayers(_, _)
\* api.ts:150-152
AddPlayers(m, s) == IF s = <<>> THEN m ELSE AddPlayers(AddPlayer(m, Head(s)), Tail(s))

\* api.ts:144-152
BuildPlayersMap(playersResponse) ==
    AddPlayers(EmptyMap,
            playersResponse.LegendsPlayers \o playersResponse.Players)

\* api.ts:154-159; builtBy is the identity of the object
BuildCachedData(playersResponse, futggData, p) ==
    [players |-> BuildPlayersMap(playersResponse),
     teams |-> futggData.teams,
     leagues |-> futggData.leagues,
     nations |-> futggData.nations,
     builtBy |-> p]

----------------------------------------------------------------------------
(* Static Reference Cache: fetchStaticData and clearCache                  *)

Issue(eps) == [e \in Endpoints |-> IF e \in eps THEN issued[e] + 1 ELSE issued[e]]

\* api.ts:129
CacheIsLoaded == cachedData # Null

\* mutant of ReusePending: the pending population is never reused
ReusePendingNever == FALSE

\* api.ts:133
ReusePending == staticDataPromise # 0

NewPopulation ==
    [players |-> Pending, futgg |-> Pending,
     state |-> "pending", value |-> Null, error |-> NoError, epoch |-> epoch]

\* one call of fetchStaticData(), up to its first suspension (api.ts:128-165)
StaticCall ==
    /\ Len(staticCalls) < MaxStaticCalls
    /\ IF CacheIsLoaded
       THEN /\ staticCalls' = Append(staticCalls,
                  [src |-> "cache", pop |-> 0, value |-> cachedData, epoch |-> epoch])
            /\ UNCHANGED <<populations, staticDataPromise, issued>>
       ELSE IF ReusePending
       THEN /\ staticCalls' = Append(staticCalls,
                  [src |-> "promise", pop |-> staticDataPromise, value |-> Null,
                   epoch |-> epoch])
            /\ UNCHANGED <<populations, staticDataPromise, issued>>
       ELSE /\ populations' = Append(populations, NewPopulation)
            /\ staticDataPromise' = Len(populations) + 1
            /\ issued' = Issue({"players.json", "fc-core-data"})
            /\ staticCalls' = Append(staticCalls,
                  [src |-> "promise", pop |-> Len(populations) + 1, value |-> Null,
                   epoch |-> epoch])
    /\ UNCHANGED cachedData

\* fetchStaticData() called on its own
FetchStaticData ==
    /\ StaticCall
    /\ UNCHANGED <<app, now, epoch, sbcVars, ppVars>>

\* what the async body stores in cachedData once Promise.all has fulfilled
StoredData(pop, p) ==
    BuildCachedData(pop.players.body, BuildFutGGData(pop.futgg.body), p)

\* mutant of Resume: a failure of the metadata request is made up for with
\* empty maps
ResumePartial(pop, p) ==
    IF pop.state # "pending" THEN pop
    ELSE IF pop.players.st = "failed"
    THEN [pop EXCEPT !.state = "rejected", !.error = pop.players.err]
    ELSE IF pop.players.st = "ok" /\ pop.futgg.st = "failed"
    THEN [pop EXCEPT !.state = "fulfilled",
                     !.value = BuildCachedData(pop.players.body,
                                   [teams |-> EmptyMap, nations |-> EmptyMap,
                                    leagues |-> EmptyMap], p)]
    ELSE IF pop.players.st = "ok" /\ pop.futgg.st = "ok"
    THEN [pop EXCEPT !.state = "fulfilled", !.value = StoredData(pop, p)]
    ELSE pop

\* api.ts:139-162 after one of the two requests has settled: Promise.all
\* rejects on the first failure and fulfils when both have answered, and the
\* async body then runs to its end
Resume(pop, p) ==
    IF pop.state # "pending" THEN pop
    ELSE IF pop.players.st = "failed"
    THEN [pop EXCEPT !.state = "rejected", !.error = pop.players.err]
    ELSE IF pop.futgg.st = "failed"
    THEN [pop EXCEPT !.state = "rejected", !.error = pop.futgg.err]
    ELSE IF pop.players.st = "ok" /\ pop.futgg.st = "ok"
    THEN [pop EXCEPT !.state = "fulfilled", !.value = StoredData(pop, p)]
    ELSE pop

\* api.ts:154: the assignment to cachedData, made when the body fulfils
CachedDataAfter(before, after) ==
    IF before.state = "pending" /\ after.state = "fulfilled"
    THEN after.value
    ELSE cachedData

\* the players.json request of population p settles
PlayersJsonSettles(p) ==
    /\ p \in 1..Len(populations)
    /\ populations[p].players.st = "pending"
    /\ \E r \in {Ok(body) : body \in PlayersJsonResponses} \cup {Failed(e) : e \in Errors} :
         LET after == Resume([populations[p] EXCEPT !.players = r], p)
         IN /\ populations' = [populations EXCEPT ![p] = after]
            /\ cachedData' = CachedDataAfter(populations[p], after)
    /\ UNCHANGED <<app, now, epoch, issued, staticDataPromise, staticCalls, sbcVars, ppVars>>

\* the fut.gg request of population p settles
FutGGSettles(p) ==
    /\ p \in 1..Len(populations)
    /\ populations[p].futgg.st = "pending"
    /\ \E r \in {Ok(body) : body \in FutGGResponses} \cup {Failed(e) : e \in Errors} :
         LET after == Resume([populations[p] EXCEPT !.futgg = r], p)
         IN /\ populations' = [populations EXCEPT ![p] = after]
            /\ cachedData' = CachedDataAfter(populations[p], after)
    /\ UNCHANGED <<app, now, epoch, issued, staticDataPromise, staticCalls, sbcVars, ppVars>>

\* api.ts:348-352 (the SBC ranking cache is cleared with it)
ClearCache ==
    /\ epoch < MaxClears
    /\ cachedData' = Null
    /\ staticDataPromise' = 0
    /\ sbcCache' = Null
    /\ epoch' = epoch + 1
    /\ UNCHANGED <<app, now, issued, populations, staticCalls, sbcCalls, sentSids, ppVars>>

\* what the promise returned to caller c has settled to, so far
StaticOutcome(c) ==
    IF staticCalls[c].src = "cache"
    THEN [state |-> "fulfilled", value |-> staticCalls[c].value, error |-> NoError]
    ELSE [state |-> populations[staticCalls[c].pop].state,
          value |-> populations[staticCalls[c].pop].value,
          error |-> populations[staticCalls[c].pop].error]

\* App.tsx:591-599: the initial filters
DefaultFilters ==
    [ratingRange |-> <<47, 99>>, positions |-> <<>>, nations |-> <<>>,
     leagues |-> <<>>, teams |-> <<>>, types |-> <<>>, multipleCopiesOnly |-> FALSE]

\* App.tsx:316-327: the state of SBCList at its first render. instance numbers
\* the mounts of the component (0: never mounted) and sid is its prop; loads
\* are the ranking loads of its effect and clicks the challenge requests of
\* handleSBCClick
SBCListInit ==
    [mounted |-> FALSE, instance |-> 0, sid |-> "",
     sbcs |-> <<>>, loading |-> FALSE, error |-> NoError, fetchingRef |-> FALSE,
     selectedSet |-> Null, challenges |-> <<>>, challengesLoading |-> FALSE,
     challengesError |-> NoError, loads |-> <<>>, clicks |-> <<>>]

\* App.tsx:581-599, 651, 711: the App component after its first render, before
\* its effects have run. startup is the fetchStaticData call of the mount
\* effect (0: not made yet); refreshIntervalRef is the id the ref holds (0:
\* null), timers the intervals that are set and intervals the number of
\* setInterval calls so far; requests are the processPlayers calls of fetchData
AppInit ==
    [players |-> <<>>, filters |-> DefaultFilters,
     aggregatedPlayers |-> <<>>, filteredPlayers |-> <<>>,
     sid |-> "", loading |-> FALSE, error |-> NoError, warnings |-> <<>>,
     lastRefresh |-> Null, staticDataLoading |-> TRUE, startup |-> 0,
     refreshIntervalRef |-> 0, timers |-> {}, intervals |-> 0, requests |-> <<>>,
     sbcList |-> SBCListInit]

\* the state of the module when it has been loaded
InitStatic ==
    /\ now = 0
    /\ epoch = 0
    /\ issued = [e \in Endpoints |-> 0]
    /\ cachedData = Null
    /\ staticDataPromise = 0
    /\ populations = <<>>
    /\ staticCalls = <<>>
    /\ sbcCache = Null
    /\ sbcCalls = <<>>
    /\ sentSids = {}
    /\ fetchers = <<>>
    /\ pp = [pc |-> "idle", sid |-> "", call |-> 0, staticData |-> Null,
             warnings |-> <<>>, results |-> EmptyMap, firstSettled |-> "",
             players |-> <<>>, error |-> NoError]
    /\ app = AppInit

NextStatic ==
    \/ FetchStaticData
    \/ \E p \in 1..MaxStaticCalls : PlayersJsonSettles(p)
    \/ \E p \in 1..MaxStaticCalls : FutGGSettles(p)
    \/ ClearCache

SpecStatic == InitStatic /\ [][NextStatic]_vars

\* the population whose requests obtained the data caller c was given (0: none yet)
ObtainedBy(c) ==
    IF StaticOutcome(c).state = "fulfilled" THEN StaticOutcome(c).value.builtBy ELSE 0

\* C1: as long as clearCache has not been called, all the fetchStaticData calls
\* made so far (however many were made while the first population was pending)
\* have caused exactly one players.json request and exactly one metadata
\* request, and every caller's promise has the same state, value and error as
\* the first caller's.
C1_SingleFlight ==
    (epoch = 0 /\ staticCalls # <<>>) =>
        /\ issued["players.json"] = 1
        /\ issued["fc-core-data"] = 1
        /\ \A c \in 1..Len(staticCalls) : StaticOutcome(c) = StaticOutcome(1)

\* C1 witness: three callers attached to the first population while it was
\* pending, and it has since fulfilled.
C1_Witness ==
    /\ epoch = 0
    /\ Len(staticCalls) = 3
    /\ \A c \in 1..3 : staticCalls[c].src = "promise"
    /\ StaticOutcome(3).state = "fulfilled"

\* C2 (as claimed): a fetchStaticData call made after clearCache never returns
\* data obtained by requests that were started before that clearCache.
C2_NoStaleAfterClear ==
    \A c \in 1..Len(staticCalls) :
        ObtainedBy(c) # 0 => populations[ObtainedBy(c)].epoch >= staticCalls[c].epoch

----------------------------------------------------------------------------
(* SBC Ranking Pipeline: fetchAllSBCsWithDetails and its cache             *)

MaxSbcCalls == 2
MaxPeriods == 1

\* api.ts:425
SBC_CACHE_DURATION == 5 * 60 * 1000

Sids == {"sidA", "sidB"}

\* the instants at which the model looks at the clock: the ends of the cache
\* windows opened at 0, and the millisecond before each
TimePoints ==
    {0} \cup {k * SBC_CACHE_DURATION - o : k \in 1..MaxPeriods, o \in {0, 1}}

\* SBCSet (api.ts:355-365)
SBCSet(id, name, count, completed, repeatable, repeats, times) ==
    [setId |-> id, name |-> name, challengesCount |-> count,
     challengesCompletedCount |-> completed, repeatable |-> repeatable,
     repeats |-> repeats, timesCompleted |-> times]

\* bodies /sbs/sets answers with: categories, each with its sets
SetsResponses ==
    { [categories |-> <<
          [sets |-> << SBCSet(5, "League", 4, 0, FALSE, 0, 0) >>],
          [sets |-> << SBCSet(1, "Icons", 3, 2, FALSE, 0, 0),
                       SBCSet(4, "Daily", 5, 5, TRUE, 2, 2),
                       SBCSet(2, "Upgrade", 5, 5, TRUE, 2, 1) >>] >>],
      [categories |-> <<
          [sets |-> << SBCSet(3, "Foundations", 2, 2, FALSE, 0, 0),
                       SBCSet(4, "Daily", 5, 5, TRUE, 2, 2) >>] >>] }

\* a longer body: every case of the exclusion rule, and one set listed twice
SetsCatalogue ==
    { [categories |-> <<
          [sets |-> << SBCSet(5, "League", 4, 0, FALSE, 0, 0) >>],
          [sets |-> << SBCSet(1, "Icons", 3, 2, FALSE, 0, 0),
                       SBCSet(4, "Daily", 5, 5, TRUE, 2, 2),
                       SBCSet(2, "Upgrade", 5, 5, TRUE, 2, 1),
                       SBCSet(6, "Marquee", 3, 1, TRUE, 1, 1),
                       SBCSet(3, "Foundations", 2, 2, FALSE, 0, 0),
                       SBCSet(5, "League", 4, 0, FALSE, 0, 0) >>] >>] }

RECURSIVE FlattenCategories(_)
\* fetchSBCSets, api.ts:433-442
FlattenCategories(categories) ==
    IF categories = <<>> THEN <<>>
    ELSE Head(categories).sets \o FlattenCategories(Tail(categories))

\* api.ts:512
ChallengesRemaining(set) == set.challengesCount - set.challengesCompletedCount

\* mutant of IsExcluded: a repeatable set is treated like any other
IsExcludedWhenComplete(set) == ChallengesRemaining(set) = 0

\* api.ts:514-522: the sets the loop skips
IsExcluded(set) ==
    IF set.repeatable
    THEN set.timesCompleted >= set.repeats /\ ChallengesRemaining(set) = 0
    ELSE ChallengesRemaining(set) = 0

RECURSIVE SurvivingSets(_)
\* api.ts:509-528
SurvivingSets(allSets) ==
    IF allSets = <<>> THEN <<>>
    ELSE IF IsExcluded(Head(allSets)) THEN SurvivingSets(Tail(allSets))
    ELSE <<[Head(allSets) EXCEPT !.challengesCount = ChallengesRemaining(Head(allSets))]>>
         \o SurvivingSets(Tail(allSets))

\* a string is kept as the sequence of its characters where the code parses it
Digits == {"0", "1", "2", "3", "4", "5", "6", "7", "8", "9"}

DigitValue(c) ==
    CASE c = "0" -> 0 [] c = "1" -> 1 [] c = "2" -> 2 [] c = "3" -> 3 [] c = "4" -> 4
      [] c = "5" -> 5 [] c = "6" -> 6 [] c = "7" -> 7 [] c = "8" -> 8 [] c = "9" -> 9

NaN == [nan |-> TRUE, n |-> 0]

RECURSIVE ParseDigits(_, _, _)
\* the longest prefix of digits of chars, read as a decimal number
ParseDigits(chars, acc, seen) ==
    IF chars # <<>> /\ Head(chars) \in Digits
    THEN ParseDigits(Tail(chars), 10 * acc + DigitValue(Head(chars)), TRUE)
    ELSE IF seen THEN [nan |-> FALSE, n |-> acc] ELSE NaN

RECURSIVE ParseInt(_)
\* parseInt(s, 10): leading blanks, an optional sign, then digits
ParseInt(chars) ==
    IF chars # <<>> /\ Head(chars) = " " THEN ParseInt(Tail(chars))
    ELSE IF chars # <<>> /\ Head(chars) = "-"
    THEN LET r == ParseDigits(Tail(chars), 0, FALSE)
         IN IF r.nan THEN NaN ELSE [nan |-> FALSE, n |-> 0 - r.n]
    ELSE IF chars # <<>> /\ Head(chars) = "+"
    THEN ParseDigits(Tail(chars), 0, FALSE)
    ELSE ParseDigits(chars, 0, FALSE)

Vote(dataId, likes, disLikes) == [dataId |-> dataId, likes |-> likes, disLikes |-> disLikes]

\* bodies the vote endpoint answers with
VotesResponses ==
    { << Vote(<<"2">>, 2, 6), Vote(<<"n", "/", "a">>, 9, 9), Vote(<<"1", "x">>, 10, 0),
         Vote(<<"5">>, 3, 0), Vote(<<"7">>, 1, 1) >> }

RECURSIVE BuildVotesMap(_, _)
\* fetchSBCVotes, api.ts:456-471
BuildVotesMap(m, votesArray) ==
    IF votesArray = <<>> THEN m
    ELSE LET v == Head(votesArray)
             id == ParseInt(v.dataId)
         IN BuildVotesMap(
                IF ~id.nan
                THEN MapSet(m, id.n, [id |-> id.n, likes |-> v.likes, dislikes |-> v.disLikes])
                ELSE m,
                Tail(votesArray))

\* numbers with a fractional part are kept in thousandths, rounded down
Scale == 1000

RECURSIVE ISqrtBetween(_, _, _)
\* the r with lo <= r < hi and r*r <= n < (r+1)*(r+1), by bisection
ISqrtBetween(n, lo, hi) ==
    IF hi - lo <= 1 THEN lo
    ELSE LET mid == (lo + hi) \div 2
         IN IF mid * mid <= n THEN ISqrtBetween(n, mid, hi) ELSE ISqrtBetween(n, lo, mid)

\* floor of the square root (Math.sqrt, api.ts:557), for n below 2^31
ISqrt(n) == ISqrtBetween(n, 0, 46340)

\* api.ts:549, in thousandths of a percent point
LikePercent(likes, dislikes) ==
    IF likes + dislikes > 0 THEN (likes * 100 * Scale) \div (likes + dislikes) ELSE 0

\* mutant of RankScore: the share of likes alone
RankScoreApproval(likes, dislikes) ==
    IF likes + dislikes > 0 THEN (likes * Scale) \div (likes + dislikes) ELSE 0

\* api.ts:554-558, the Wilson score lower bound with z = 1.96, in thousandths.
\* With n = likes + dislikes, the expression of the code equals
\*   (likes + z^2/2 - z * sqrt(likes*dislikes/n + z^2/4)) / (n + z^2)
RankScore(likes, dislikes) ==
    LET n == likes + dislikes
        root == ISqrt((likes * dislikes * Scale * Scale) \div n + 960400)
        num == 100000 * likes + 192080 - 196 * root
    IN IF n > 0 THEN (num * 100) \div (10000 * n + 38416) ELSE 0

\* api.ts:542-569
WithDetails(set, votes) ==
    LET likes == IF set.setId \in DOMAIN votes THEN votes[set.setId].likes ELSE 0
        dislikes == IF set.setId \in DOMAIN votes THEN votes[set.setId].dislikes ELSE 0
    IN [setId |-> set.setId, name |-> set.name, challengesCount |-> set.challengesCount,
        likes |-> likes, dislikes |-> dislikes,
        likePercent |-> LikePercent(likes, dislikes),
        rankScore |-> RankScore(likes, dislikes)]

RECURSIVE MapWithDetails(_, _)
MapWithDetails(sets, votes) ==
    IF sets = <<>> THEN <<>>
    ELSE <<WithDetails(Head(sets), votes)>> \o MapWithDetails(Tail(sets), votes)

\* the comparator of api.ts:571: positive when a sorts after b
CompareRank(a, b) == b.rankScore - a.rankScore

RECURSIVE InsertRankedUnstable(_, _)
\* mutant of InsertRanked: x goes before the elements it ties with
InsertRankedUnstable(sorted, x) ==
    IF sorted = <<>> THEN <<x>>
    ELSE IF CompareRank(Head(sorted), x) >= 0
    THEN <<x>> \o sorted
    ELSE <<Head(sorted)>> \o InsertRankedUnstable(Tail(sorted), x)

RECURSIVE InsertRanked(_, _)
\* x goes after every element it does not sort strictly before
InsertRanked(sorted, x) ==
    IF sorted = <<>> THEN <<x>>
    ELSE IF CompareRank(Head(sorted), x) > 0
    THEN <<x>> \o sorted
    ELSE <<Head(sorted)>> \o InsertRanked(Tail(sorted), x)

RECURSIVE SortRanked(_, _)
\* Array.prototype.sort is stable
SortRanked(sorted, rest) ==
    IF rest = <<>> THEN sorted ELSE SortRanked(InsertRanked(sorted, Head(rest)), Tail(rest))

\* an array the pipeline returns; builtBy is the identity of the array
SbcArray(items, i) == [items |-> items, builtBy |-> i]

\* api.ts:503
IsFresh == sbcCache # Null /\ now - sbcCache.timestamp < SBC_CACHE_DURATION

\* the calls that have returned a value
Returned == {i \in 1..Len(sbcCalls) : sbcCalls[i].pc = "done"}

\* what the check of api.ts:503 finds in the cache
Found == IF sbcCache = Null THEN "nothing" ELSE IF IsFresh THEN "fresh" ELSE "expired"

\* a call record: sid is the token the call was made with; pc is where the
\* call is suspended ("sets", "votes") or how it ended ("done", "rejected");
\* found is what the call found in the cache;
\* setsReq is its /sbs/sets request and votes how its vote request has gone
SbcCall(sid, pc, result) ==
    [sid |-> sid, pc |-> pc, found |-> Found, sets |-> <<>>, result |-> result,
     setsReq |-> IF pc = "done" THEN Null ELSE Pending, votes |-> "none",
     error |-> NoError, requests |-> IF pc = "done" THEN 0 ELSE 1,
     startEpoch |-> epoch,
     doneAt |-> IF pc = "done" THEN now ELSE 0,
     doneEpoch |-> IF pc = "done" THEN epoch ELSE 0]

\* mutant of FetchAllSBCsWithDetails: the entry serves only the token it was
\* computed with
FetchAllSBCsWithDetailsKeyed(sid) ==
    /\ Len(sbcCalls) < MaxSbcCalls
    /\ IF IsFresh /\ sbcCalls[sbcCache.data.builtBy].sid = sid
       THEN /\ sbcCalls' = Append(sbcCalls, SbcCall(sid, "done", sbcCache.data))
            /\ UNCHANGED <<issued, sentSids>>
       ELSE /\ sbcCalls' = Append(sbcCalls, SbcCall(sid, "sets", Null))
            /\ issued' = Issue({"sbs/sets"})
            /\ sentSids' = sentSids \cup {sid}
    /\ UNCHANGED <<app, now, epoch, cachedData, staticDataPromise, populations, staticCalls,
                   sbcCache, ppVars>>

\* fetchAllSBCsWithDetails(sid) up to its first suspension (api.ts:502-507)
FetchAllSBCsWithDetails(sid) ==
    /\ Len(sbcCalls) < MaxSbcCalls
    /\ IF IsFresh
       THEN /\ sbcCalls' = Append(sbcCalls, SbcCall(sid, "done", sbcCache.data))
            /\ UNCHANGED <<issued, sentSids>>
       ELSE /\ sbcCalls' = Append(sbcCalls, SbcCall(sid, "sets", Null))
            /\ issued' = Issue({"sbs/sets"})
            /\ sentSids' = sentSids \cup {sid}
    /\ UNCHANGED <<app, now, epoch, cachedData, staticDataPromise, populations, staticCalls,
                   sbcCache, ppVars>>

\* the call returns value v
Return(call, v) ==
    [call EXCEPT !.pc = "done", !.result = v, !.doneAt = now, !.doneEpoch = epoch]

\* mutant of SetsFail: a failure is replaced by an empty result
SetsFailEmpty(i, e) ==
    /\ sbcCalls' = [sbcCalls EXCEPT
                        ![i] = Return([@ EXCEPT !.setsReq = Failed(e)], SbcArray(<<>>, i))]
    /\ UNCHANGED <<issued, sbcCache>>

\* the /sbs/sets request of call i fails: fetchSBCSets throws (api.ts:507)
SetsFail(i, e) ==
    /\ sbcCalls' = [sbcCalls EXCEPT ![i].pc = "rejected", ![i].error = e,
                                    ![i].setsReq = Failed(e)]
    /\ UNCHANGED <<issued, sbcCache>>

\* the /sbs/sets request of call i answers (api.ts:507-540)
SetsAnswer(i, body) ==
    LET sets == SurvivingSets(FlattenCategories(body.categories))
    IN IF Len(sets) = 0
       THEN /\ sbcCalls' = [sbcCalls EXCEPT
                                ![i] = Return([@ EXCEPT !.setsReq = Ok(body)],
                                              SbcArray(<<>>, i))]
            /\ UNCHANGED <<issued, sbcCache>>
       ELSE /\ sbcCalls' = [sbcCalls EXCEPT ![i].pc = "votes", ![i].sets = sets,
                                            ![i].setsReq = Ok(body),
                                            ![i].votes = "pending",
                                            ![i].requests = @ + 1]
            /\ issued' = Issue({"vote/votes"})
            /\ UNCHANGED sbcCache

\* the /sbs/sets request of call i settles, with one of the given bodies or a
\* failure
SetsSettlesWith(i, bodies) ==
    /\ i \in 1..Len(sbcCalls)
    /\ sbcCalls[i].pc = "sets"
    /\ \/ \E body \in bodies : SetsAnswer(i, body)
       \/ \E e \in Errors : SetsFail(i, e)
    /\ UNCHANGED <<app, now, epoch, cachedData, staticDataPromise, populations, staticCalls,
                   sentSids, ppVars>>

\* fetchSBCSets, api.ts:427-443
SetsSettles(i) == SetsSettlesWith(i, SetsResponses)

\* what api.ts:573 stores
CacheEntry(result) == [data |-> result, timestamp |-> now]

\* api.ts:542-575, once fetchSBCVotes has returned the map votes
Rank(i, votes, outcome) ==
    LET result == SbcArray(SortRanked(<<>>, MapWithDetails(sbcCalls[i].sets, votes)), i)
    IN /\ sbcCache' = CacheEntry(result)
       /\ sbcCalls' = [sbcCalls EXCEPT ![i] = Return([@ EXCEPT !.votes = outcome], result)]

\* mutant of VotesFail: the ranking made without votes is returned but not
\* stored
VotesFailUncached(i) ==
    /\ sbcCalls' = [sbcCalls EXCEPT
           ![i] = Return([@ EXCEPT !.votes = "failed"],
                         SbcArray(SortRanked(<<>>, MapWithDetails(sbcCalls[i].sets, EmptyMap)),
                                  i))]
    /\ UNCHANGED sbcCache

\* mutant of VotesFail: the failure of the vote request reaches the caller
VotesFailRejects(i) ==
    /\ sbcCalls' = [sbcCalls EXCEPT ![i].pc = "rejected", ![i].votes = "failed",
                                    ![i].error = CHOOSE e \in Errors : TRUE]
    /\ UNCHANGED sbcCache

\* api.ts:472-474: the vote request fails and fetchSBCVotes returns an empty map
VotesFail(i) == Rank(i, EmptyMap, "failed")

\* the vote request of call i settles, with one of the given bodies or a failure
VotesSettlesWith(i, bodies) ==
    /\ i \in 1..Len(sbcCalls)
    /\ sbcCalls[i].pc = "votes"
    /\ \/ \E body \in bodies : Rank(i, BuildVotesMap(EmptyMap, body), "ok")
       \/ VotesFail(i)
    /\ UNCHANGED <<app, now, epoch, issued, cachedData, staticDataPromise, populations,
                   staticCalls, sentSids, ppVars>>

\* fetchSBCVotes, api.ts:445-475
VotesSettles(i) == VotesSettlesWith(i, VotesResponses)

\* time passes
TickSbc ==
    /\ \E t \in TimePoints : t > now /\ now' = t
    /\ UNCHANGED <<app, epoch, issued, cachedData, staticDataPromise, populations,
                   staticCalls, sbcVars, ppVars>>

MaxLikes == 10
MaxDislikes == 1

\* vote bodies with every tally up to the bounds for the sets 5 and 1
VoteTallies ==
    { << Vote(<<"5">>, a, b), Vote(<<"1">>, c, d) >> :
          a \in 0..MaxLikes, b \in 0..MaxDislikes, c \in 0..MaxLikes, d \in 0..MaxDislikes }

\* the module after fetchAllSBCsWithDetails("sidA") has been called once
InitRank ==
    /\ now = 0
    /\ epoch = 0
    /\ issued = [e \in Endpoints |-> IF e = "sbs/sets" THEN 1 ELSE 0]
    /\ cachedData = Null
    /\ staticDataPromise = 0
    /\ populations = <<>>
    /\ staticCalls = <<>>
    /\ sbcCache = Null
    /\ sbcCalls = <<SbcCall("sidA", "sets", Null)>>
    /\ sentSids = {"sidA"}
    /\ fetchers = <<>>
    /\ pp = [pc |-> "idle", sid |-> "", call |-> 0, staticData |-> Null,
             warnings |-> <<>>, results |-> EmptyMap, firstSettled |-> "",
             players |-> <<>>, error |-> NoError]
    /\ app = AppInit

NextRank ==
    \/ SetsSettlesWith(1, SetsCatalogue \cup SetsResponses)
    \/ VotesSettlesWith(1, VoteTallies)

\* one call of fetchAllSBCsWithDetails, with every vote tally
SpecRank == InitRank /\ [][NextRank]_vars

\* calls with one token, at any time around clearCache and the clock
NextSbc ==
    \/ FetchAllSBCsWithDetails("sidA")
    \/ \E i \in 1..MaxSbcCalls : SetsSettles(i)
    \/ \E i \in 1..MaxSbcCalls : VotesSettles(i)
    \/ ClearCache
    \/ TickSbc

SpecSbc == InitStatic /\ [][NextSbc]_vars

\* calls with either token, at any time around the clock
NextTokens ==
    \/ \E sid \in Sids : FetchAllSBCsWithDetails(sid)
    \/ \E i \in 1..MaxSbcCalls : SetsSettles(i)
    \/ \E i \in 1..MaxSbcCalls : VotesSettles(i)
    \/ TickSbc

SpecTokens == InitStatic /\ [][NextTokens]_vars

\* the calls of fetchAllSBCsWithDetails that are refilling the cache
Refilling == {i \in 1..Len(sbcCalls) : sbcCalls[i].pc \in {"sets", "votes"}}

\* the calls that returned an array they computed themselves
Computed == {i \in Returned : sbcCalls[i].found # "fresh"}

\* a call of fetchAllSBCsWithDetails starts in this step
SbcCallStarts == Len(sbcCalls') = Len(sbcCalls) + 1

\* C3 (as claimed): the SBC ranking cache never has two refills in flight at
\* once (a call made while another is computing starts no refill of its own).
C3_SingleRefill == Cardinality(Refilling) <= 1

\* C4 (as claimed): when a call starts after a call i has returned the array it
\* computed (an empty one included), less than 5 minutes after i returned and
\* with no clearCache since, the new call issues no request and returns the
\* array i returned.
C4_ReuseWithinWindow ==
    [][SbcCallStarts =>
        \A i \in Computed :
            (sbcCalls[i].doneEpoch = epoch /\ now - sbcCalls[i].doneAt < SBC_CACHE_DURATION)
            => /\ sbcCalls'[Len(sbcCalls')].pc = "done"
               /\ sbcCalls'[Len(sbcCalls')].requests = 0
               /\ sbcCalls'[Len(sbcCalls')].result = sbcCalls[i].result]_vars

\* C5 (as claimed): a call is served from the cache only while now - timestamp
\* is below 5 minutes and such a hit leaves the entry as it was; a call that
\* finds the entry 5 minutes old or older asks the network, and when it
\* returns its array the entry holds that array with the time of the return.
C5_StrictWindow ==
    [][/\ SbcCallStarts =>
            IF sbcCalls'[Len(sbcCalls')].pc = "done"
            THEN /\ sbcCache # Null
                 /\ now - sbcCache.timestamp < SBC_CACHE_DURATION
                 /\ sbcCalls'[Len(sbcCalls')].result = sbcCache.data
                 /\ sbcCache' = sbcCache
            ELSE /\ sbcCalls'[Len(sbcCalls')].requests = 1
                 /\ issued'["sbs/sets"] = issued["sbs/sets"] + 1
       /\ \A i \in Refilling :
            (sbcCalls[i].found = "expired" /\ sbcCalls'[i].pc = "done")
            => sbcCache' = [data |-> sbcCalls'[i].result, timestamp |-> now]]_vars

----------------------------------------------------------------------------
(* Resilient Fetcher: fetchWithRetry                                       *)

MaxRetriesArg == 3

\* api.ts:171
DefaultMaxRetries == 3

\* the three item sources of processPlayers, by endpoint
Sources == <<"tradepile", "storagepile", "purchased/items">>

\* the name each source passes to fetchWithRetry (api.ts:195, 203, 211)
SourceName(url) ==
    CASE url = "tradepile" -> "Trade pile"
      [] url = "storagepile" -> "Storage"
      [] url = "purchased/items" -> "Duplicated items"

\* a RawItemRecord; positions is <<>> when possiblePositions is missing or empty
Item(assetId, rating, positions, nation, leagueId, teamid) ==
    [assetId |-> assetId, rating |-> rating, possiblePositions |-> positions,
     nation |-> nation, leagueId |-> leagueId, teamid |-> teamid]

ItemA == Item(1, 91, <<"ST", "CF">>, 1, 1, 1)
ItemB == Item(2, 88, <<"RW">>, 2, 2, 3)
ItemC == Item(9, 70, <<>>, 7, 9, 8)

\* bodies the three item endpoints answer with
Bodies(url) ==
    CASE url = "tradepile" ->
            { [auctionInfo |-> <<[itemData |-> ItemA], [itemData |-> ItemC]>>],
              [auctionInfo |-> <<[itemData |-> ItemB]>>] }
      [] url = "storagepile" ->
            { [itemData |-> <<ItemB, ItemA>>], [itemData |-> <<>>] }
      [] url = "purchased/items" ->
            { [itemData |-> <<ItemC>>], [itemData |-> <<ItemA, ItemA>>] }

RECURSIVE IntToString(_)
\* a natural number in decimal, as a template literal prints it
IntToString(n) ==
    LET d == CASE n % 10 = 0 -> "0" [] n % 10 = 1 -> "1" [] n % 10 = 2 -> "2"
               [] n % 10 = 3 -> "3" [] n % 10 = 4 -> "4" [] n % 10 = 5 -> "5"
               [] n % 10 = 6 -> "6" [] n % 10 = 7 -> "7" [] n % 10 = 8 -> "8"
               [] n % 10 = 9 -> "9"
    IN IF n < 10 THEN d ELSE IntToString(n \div 10) \o d

\* api.ts:188: what is thrown when the loop has ended
Thrown(lastError, name, maxRetries) ==
    IF lastError # NoError THEN lastError
    ELSE "Failed to fetch " \o name \o " after " \o IntToString(maxRetries) \o " retries"

\* api.ts:173-177: the call up to its first suspension. req is the request of
\* the current attempt; waitMs is the delay of the timer the call waits for and
\* elapsed the time gone since it was set; requests, failures and firstError
\* keep what the call has done so far, waited how long each of its waits took
NewFetch(url, maxRetries) ==
    [url |-> url, name |-> SourceName(url), maxRetries |-> maxRetries, attempt |-> 1,
     pc |-> IF 1 <= maxRetries THEN "fetching" ELSE "rejected",
     req |-> IF 1 <= maxRetries THEN Pending ELSE Null,
     lastError |-> NoError,
     error |-> IF 1 <= maxRetries THEN NoError
               ELSE Thrown(NoError, SourceName(url), maxRetries),
     result |-> Null, waitMs |-> 0, elapsed |-> 0,
     requests |-> IF 1 <= maxRetries THEN 1 ELSE 0,
     failures |-> 0, firstError |-> NoError, waited |-> <<>>]

\* mutant of LastErrorAfter: the first error is kept
LastErrorKeepsFirst(lastError, e) == IF lastError = NoError THEN e ELSE lastError

\* api.ts:180
LastErrorAfter(lastError, e) == e

\* mutant of Backoff: a fixed delay
BackoffFixed(attempt) == 1000

\* api.ts:183: the delay given to setTimeout
Backoff(attempt) == 1000 * attempt

\* api.ts:177-178: the request of the current attempt answers
Succeeded(f, body) ==
    [f EXCEPT !.pc = "resolved", !.req = Ok(body), !.result = body]

\* api.ts:179-188: the request of the current attempt throws
Caught(f, e) ==
    LET f1 == [f EXCEPT !.req = Failed(e),
                        !.lastError = LastErrorAfter(f.lastError, e),
                        !.failures = @ + 1,
                        !.firstError = IF @ = NoError THEN e ELSE @]
    IN IF f.attempt < f.maxRetries
       THEN [f1 EXCEPT !.pc = "waiting", !.waitMs = Backoff(f.attempt), !.elapsed = 0]
       ELSE [f1 EXCEPT !.pc = "rejected", !.attempt = @ + 1,
                       !.error = Thrown(f1.lastError, f.name, f.maxRetries)]

\* api.ts:183-184 and 175-177: the timer has fired, the loop goes round
Retried(f) ==
    [f EXCEPT !.attempt = @ + 1, !.pc = "fetching", !.req = Pending, !.waitMs = 0,
              !.elapsed = 0, !.requests = @ + 1, !.waited = Append(@, f.elapsed)]

\* the timer of fetcher k fires
TimerFires(k) ==
    /\ k \in DOMAIN fetchers
    /\ fetchers[k].pc = "waiting"
    /\ fetchers[k].elapsed >= fetchers[k].waitMs
    /\ fetchers' = [fetchers EXCEPT ![k] = Retried(@)]
    /\ issued' = Issue({fetchers[k].url})
    /\ UNCHANGED <<app, now, epoch, cachedData, staticDataPromise, populations, staticCalls,
                   sbcVars, pp>>

\* the timers count in steps of TimerStep ms (every delay is a multiple of it)
TimerStep == 1000

\* a timer after TimerStep more ms
Later(f) ==
    IF f.pc = "waiting" /\ f.elapsed < f.waitMs
    THEN [f EXCEPT !.elapsed = @ + TimerStep]
    ELSE f

\* time passes while some timer is running. (Neither fetchWithRetry nor
\* processPlayers reads Date.now(), so the clock itself is left alone here.)
TimePasses ==
    /\ \E k \in DOMAIN fetchers : fetchers[k].pc = "waiting" /\ fetchers[k].elapsed < fetchers[k].waitMs
    /\ fetchers' = [k \in DOMAIN fetchers |-> Later(fetchers[k])]
    /\ UNCHANGED <<app, now, epoch, issued, cachedData, staticDataPromise, populations,
                   staticCalls, sbcVars, pp>>

----------------------------------------------------------------------------
(* Player Normalizer: processPlayers                                       *)

\* api.ts:225-239: the warning each catch handler pushes
WarningText(url, msg) ==
    CASE url = "tradepile" -> "Trade pile failed: " \o msg
      [] url = "storagepile" -> "Storage failed after 3 retries: " \o msg
      [] url = "purchased/items" -> "Duplicated items failed: " \o msg

\* api.ts:228, 233, 238: the value each catch handler returns
EmptyResponse(url) ==
    IF url = "tradepile" THEN [auctionInfo |-> <<>>] ELSE [itemData |-> <<>>]

\* mutant of Handled: a failed source is replaced without a warning
HandledSilently(call, f) ==
    IF f.pc = "resolved"
    THEN [call EXCEPT !.results = MapSet(@, f.url, f.result),
                      !.firstSettled = IF @ = "" THEN f.url ELSE @]
    ELSE IF f.pc = "rejected"
    THEN [call EXCEPT !.results = MapSet(@, f.url, EmptyResponse(f.url)),
                      !.firstSettled = IF @ = "" THEN f.url ELSE @]
    ELSE call

\* api.ts:224-240: what processPlayers keeps of a fetch that has settled
Handled(call, f) ==
    IF f.pc = "resolved"
    THEN [call EXCEPT !.results = MapSet(@, f.url, f.result),
                      !.firstSettled = IF @ = "" THEN f.url ELSE @]
    ELSE IF f.pc = "rejected"
    THEN [call EXCEPT !.results = MapSet(@, f.url, EmptyResponse(f.url)),
                      !.warnings = Append(@, WarningText(f.url, f.error)),
                      !.firstSettled = IF @ = "" THEN f.url ELSE @]
    ELSE call

\* the request of the current attempt of fetcher k settles
FetchSettles(k) ==
    /\ k \in DOMAIN fetchers
    /\ fetchers[k].pc = "fetching"
    /\ \E after \in {Succeeded(fetchers[k], body) : body \in Bodies(fetchers[k].url)}
                    \cup {Caught(fetchers[k], e) : e \in Errors} :
         /\ fetchers' = [fetchers EXCEPT ![k] = after]
         /\ pp' = IF pp.pc = "fetching" THEN Handled(pp, after) ELSE pp
    /\ UNCHANGED <<app, now, epoch, issued, cachedData, staticDataPromise, populations,
                   staticCalls, sbcVars>>

Undefined == <<>>

\* api.ts:248-258
getEntityName(map, id) ==
    IF id \in DOMAIN map /\ map[id].name # "" THEN map[id].name ELSE "Unknown"

\* api.ts:260-270
getEntityImg(map, id) == IF id \in DOMAIN map THEN map[id].imgUrl ELSE Undefined

\* mutant of getPlayerName: the name is built without looking for the entry
getPlayerNameUnchecked(staticData, assetId) ==
    IF assetId \in DOMAIN staticData.players
    THEN staticData.players[assetId].f \o " " \o staticData.players[assetId].l
    ELSE "undefined undefined"

\* api.ts:272-276
getPlayerName(staticData, assetId) ==
    IF assetId \notin DOMAIN staticData.players THEN "Unknown"
    ELSE IF staticData.players[assetId].c # "" THEN staticData.players[assetId].c
    ELSE staticData.players[assetId].f \o " " \o staticData.players[assetId].l

RECURSIVE Join(_, _)
\* Array.prototype.join
Join(strings, sep) ==
    IF strings = <<>> THEN ""
    ELSE IF Len(strings) = 1 THEN Head(strings)
    ELSE Head(strings) \o sep \o Join(Tail(strings), sep)

\* api.ts:286
Position(item) ==
    IF Join(item.possiblePositions, " / ") # ""
    THEN Join(item.possiblePositions, " / ")
    ELSE "Unknown"

\* api.ts:282-297 (and 304-319, 326-341)
Processed(staticData, item, type) ==
    [assetId |-> item.assetId,
     name |-> getPlayerName(staticData, item.assetId),
     rating |-> item.rating,
     position |-> Position(item),
     nation |-> getEntityName(staticData.nations, item.nation),
     nationId |-> item.nation,
     nationImg |-> getEntityImg(staticData.nations, item.nation),
     league |-> getEntityName(staticData.leagues, item.leagueId),
     leagueId |-> item.leagueId,
     leagueImg |-> getEntityImg(staticData.leagues, item.leagueId),
     team |-> getEntityName(staticData.teams, item.teamid),
     teamId |-> item.teamid,
     teamImg |-> getEntityImg(staticData.teams, item.teamid),
     type |-> type]

RECURSIVE PushAll(_, _, _)
\* the loops of api.ts:280-298, 303-320, 325-342
PushAll(staticData, items, type) ==
    IF items = <<>> THEN <<>>
    ELSE <<Processed(staticData, Head(items), type)>>
         \o PushAll(staticData, Tail(items), type)

\* api.ts:280-281: the items of the trade pile are inside its auctions
AuctionItems(tradePile) ==
    [k \in 1..Len(tradePile.auctionInfo) |-> tradePile.auctionInfo[k].itemData]

\* mutant of ProcessedPlayers: the storage loop runs before the trade pile loop
ProcessedPlayersStorageFirst(staticData, tradePile, storage, duplicated) ==
    PushAll(staticData, storage.itemData, "Storage")
    \o PushAll(staticData, AuctionItems(tradePile), "Transfer")
    \o PushAll(staticData, duplicated.itemData, "Duplicated")

\* api.ts:246-343
ProcessedPlayers(staticData, tradePile, storage, duplicated) ==
    PushAll(staticData, AuctionItems(tradePile), "Transfer")
    \o PushAll(staticData, storage.itemData, "Storage")
    \o PushAll(staticData, duplicated.itemData, "Duplicated")

\* processPlayers(sid) up to its first suspension (api.ts:220-221)
ProcessPlayers(sid) ==
    /\ pp.pc = "idle"
    /\ StaticCall
    /\ pp' = [pp EXCEPT !.pc = "static", !.sid = sid, !.call = Len(staticCalls) + 1]
    /\ UNCHANGED <<app, now, epoch, sbcVars, fetchers>>

\* api.ts:221-240: fetchStaticData() has settled; the three fetches start
ProcessPlayersResumes ==
    /\ pp.pc = "static"
    /\ StaticOutcome(pp.call).state # "pending"
    /\ IF StaticOutcome(pp.call).state = "rejected"
       THEN /\ pp' = [pp EXCEPT !.pc = "rejected", !.error = StaticOutcome(pp.call).error]
            /\ UNCHANGED <<fetchers, issued, sentSids>>
       ELSE /\ pp' = [pp EXCEPT !.pc = "fetching",
                                !.staticData = StaticOutcome(pp.call).value]
            /\ fetchers' = [k \in 1..Len(Sources) |-> NewFetch(Sources[k], DefaultMaxRetries)]
            /\ issued' = Issue({Sources[k] : k \in 1..Len(Sources)})
            /\ sentSids' = sentSids \cup {pp.sid}
    /\ UNCHANGED <<app, now, epoch, cachedData, staticDataPromise, populations, staticCalls,
                   sbcCache, sbcCalls>>

\* api.ts:240-345: Promise.all has fulfilled
ProcessPlayersJoins ==
    /\ pp.pc = "fetching"
    /\ DOMAIN pp.results = {Sources[k] : k \in 1..Len(Sources)}
    /\ pp' = [pp EXCEPT !.pc = "done",
                        !.players = ProcessedPlayers(pp.staticData,
                                                     pp.results["tradepile"],
                                                     pp.results["storagepile"],
                                                     pp.results["purchased/items"])]
    /\ UNCHANGED <<app, now, epoch, issued, cachedData, staticDataPromise, populations,
                   staticCalls, sbcVars, fetchers>>

NextPlayers ==
    \/ \E sid \in Sids : ProcessPlayers(sid)
    \/ \E p \in 1..MaxStaticCalls : PlayersJsonSettles(p)
    \/ \E p \in 1..MaxStaticCalls : FutGGSettles(p)
    \/ ProcessPlayersResumes
    \/ \E k \in 1..Len(Sources) : FetchSettles(k)
    \/ \E k \in 1..Len(Sources) : TimerFires(k)
    \/ TimePasses
    \/ ProcessPlayersJoins

SpecPlayers == InitStatic /\ [][NextPlayers]_vars

\* fetchWithRetry(url, options, name, maxRetries) has just been called
InitRetry ==
    /\ now = 0
    /\ epoch = 0
    /\ cachedData = Null
    /\ staticDataPromise = 0
    /\ populations = <<>>
    /\ staticCalls = <<>>
    /\ sbcCache = Null
    /\ sbcCalls = <<>>
    /\ sentSids = {}
    /\ pp = [pc |-> "idle", sid |-> "", call |-> 0, staticData |-> Null,
             warnings |-> <<>>, results |-> EmptyMap, firstSettled |-> "",
             players |-> <<>>, error |-> NoError]
    /\ app = AppInit
    /\ \E maxRetries \in 0..MaxRetriesArg, url \in {Sources[k] : k \in 1..Len(Sources)} :
         /\ fetchers = <<NewFetch(url, maxRetries)>>
         /\ issued = [e \in Endpoints |-> IF e = url /\ 1 <= maxRetries THEN 1 ELSE 0]

NextRetry ==
    \/ FetchSettles(1)
    \/ TimerFires(1)
    \/ TimePasses

SpecRetry == InitRetry /\ [][NextRetry]_vars

-----------------------------------------------------------------------------
(* Properties of fetchWithRetry                                             *)

\* C6: fetchWithRetry issues at most maxRetries requests; it returns the body
\* of the first request that succeeds and issues no request after it; when
\* all maxRetries requests throw it rejects with the error of the last one;
\* and it is settled as soon as no request and no timer is outstanding.
C6_BoundedRetry ==
    \A k \in DOMAIN fetchers :
        LET f == fetchers[k] IN
        /\ f.requests <= f.maxRetries
        /\ issued[f.url] = f.requests
        /\ f.pc = "resolved" =>
               /\ f.req.st = "ok"
               /\ f.result = f.req.body
               /\ f.requests = f.failures + 1
        /\ (f.pc = "rejected" /\ f.maxRetries >= 1) =>
               /\ f.requests = f.maxRetries
               /\ f.failures = f.maxRetries
               /\ f.req.st = "failed"
               /\ f.error = f.req.err
        /\ f.pc \notin {"resolved", "rejected"} =>
               \/ f.pc = "fetching" /\ f.req.st = "pending"
               \/ f.pc = "waiting" /\ f.req.st = "failed"

\* all three requests threw and the last error differs from the first
C6_Witness ==
    \E k \in DOMAIN fetchers :
        /\ fetchers[k].pc = "rejected"
        /\ fetchers[k].requests = DefaultMaxRetries
        /\ fetchers[k].firstError # fetchers[k].error

\* C7: after the k-th failed attempt with k < maxRetries the next attempt
\* starts only after a wait of k*1000 ms; nothing is waited for before the
\* first attempt, after the final failed attempt or after a success.
C7_Backoff ==
    \A k \in DOMAIN fetchers :
        LET f == fetchers[k] IN
        /\ \A j \in 1..Len(f.waited) : f.waited[j] >= j * 1000
        /\ f.pc = "waiting" =>
               /\ f.attempt < f.maxRetries
               /\ f.failures = f.attempt
               /\ f.waitMs = f.attempt * 1000
               /\ Len(f.waited) = f.attempt - 1
        /\ f.pc = "fetching" => Len(f.waited) = f.failures
        /\ f.pc = "resolved" => Len(f.waited) = f.failures
        /\ (f.pc = "rejected" /\ f.maxRetries >= 1) => Len(f.waited) = f.failures - 1
        /\ (f.pc = "rejected" /\ f.maxRetries < 1) => f.waited = <<>>
        /\ f.requests = 1 => f.waited = <<>>

\* three attempts, with waits of 1000 ms and 2000 ms between them
C7_Witness ==
    \E k \in DOMAIN fetchers :
        /\ fetchers[k].pc = "rejected"
        /\ fetchers[k].maxRetries = DefaultMaxRetries
        /\ fetchers[k].waited = <<1000, 2000>>

-----------------------------------------------------------------------------
(* Properties of processPlayers                                             *)

\* the sources whose fetch has rejected
FailedSources == {k \in DOMAIN fetchers : fetchers[k].pc = "rejected"}

\* the sources whose fetch has not settled
UnsettledSources == {k \in DOMAIN fetchers : fetchers[k].pc \in {"fetching", "waiting"}}

\* the items upstream has answered for source k, <<>> when its fetch failed
ItemsOf(k) ==
    IF fetchers[k].pc # "resolved" THEN <<>>
    ELSE IF fetchers[k].url = "tradepile"
    THEN [j \in 1..Len(fetchers[k].req.body.auctionInfo) |->
              fetchers[k].req.body.auctionInfo[j].itemData]
    ELSE fetchers[k].req.body.itemData

\* the asset ids of the players tagged with the given type, in list order
AssetIdsOf(players, type) ==
    LET keep == {j \in 1..Len(players) : players[j].type = type}
        nth(n) == CHOOSE j \in keep : Cardinality({i \in keep : i < j}) = n - 1
    IN [n \in 1..Cardinality(keep) |-> players[nth(n)].assetId]

\* the tag of each source (api.ts:296, 318, 340)
TypeOf(k) == <<"Transfer", "Storage", "Duplicated">>[k]

\* C8: when the reference data has loaded and exactly one of the three
\* sources has failed on every attempt, processPlayers does not reject, its
\* warnings list has length 1 and names the failed source, and its players are
\* built from exactly the items of the other two sources.
C8_PartialFailure ==
    (pp.pc \in {"fetching", "done", "rejected"} /\ fetchers # <<>>
     /\ UnsettledSources = {} /\ Cardinality(FailedSources) = 1) =>
        LET k == CHOOSE x \in FailedSources : TRUE
            f == fetchers[k]
        IN /\ pp.pc # "rejected"
           /\ Len(pp.warnings) = 1
           /\ pp.warnings[1] \in {f.name \o " failed: " \o f.req.err,
                                  f.name \o " failed after 3 retries: " \o f.req.err}
           /\ pp.pc = "done" =>
                  /\ \A x \in DOMAIN fetchers :
                         AssetIdsOf(pp.players, TypeOf(x)) =
                             [j \in 1..Len(ItemsOf(x)) |-> ItemsOf(x)[j].assetId]
                  /\ AssetIdsOf(pp.players, TypeOf(k)) = <<>>

\* storage has failed three times; trade pile and duplicated items are listed
C8_Witness ==
    /\ pp.pc = "done"
    /\ FailedSources = {2}
    /\ fetchers[2].requests = DefaultMaxRetries
    /\ Len(ItemsOf(1)) > 0
    /\ Len(ItemsOf(3)) > 0
    /\ Len(pp.players) = Len(ItemsOf(1)) + Len(ItemsOf(3))

\* C9: the players list is the trade-pile items, then the storage items, then
\* the duplicated items, each in upstream order, one record per item, tagged
\* 'Transfer', 'Storage' and 'Duplicated', whatever the order in which the
\* fetches have resolved and however many attempts each has needed.
C9_SourceOrder ==
    pp.pc = "done" =>
        LET t == ItemsOf(1)
            s == ItemsOf(2)
            d == ItemsOf(3)
        IN /\ Len(pp.players) = Len(t) + Len(s) + Len(d)
           /\ \A j \in 1..Len(t) :
                  pp.players[j] = Processed(pp.staticData, t[j], "Transfer")
           /\ \A j \in 1..Len(s) :
                  pp.players[Len(t) + j] = Processed(pp.staticData, s[j], "Storage")
           /\ \A j \in 1..Len(d) :
                  pp.players[Len(t) + Len(s) + j]
                      = Processed(pp.staticData, d[j], "Duplicated")

\* the duplicated items have resolved first and the trade pile last, at its
\* third attempt, and every source has items
C9_Witness ==
    /\ pp.pc = "done"
    /\ pp.firstSettled = "purchased/items"
    /\ fetchers[1].pc = "resolved" /\ fetchers[1].requests = 3
    /\ fetchers[2].pc = "resolved" /\ fetchers[2].requests = 2
    /\ fetchers[3].pc = "resolved" /\ fetchers[3].requests = 1
    /\ Len(ItemsOf(1)) = 2 /\ Len(ItemsOf(2)) = 2 /\ Len(ItemsOf(3)) = 1
    /\ pp.players[1].type = "Transfer"
    /\ pp.players[5].type = "Duplicated"

\* C10: processPlayers rejects only when the reference data fails to load,
\* never because of an id missing from it: an asset id absent from the catalog
\* gives the name 'Unknown', an absent nation, league or team id gives the name
\* 'Unknown' and no image, and an asset id in the catalog gives the common name
\* when set and otherwise the given and family names joined by a space.
C10_UnknownIds ==
    /\ pp.pc = "rejected" =>
           /\ StaticOutcome(pp.call).state = "rejected"
           /\ fetchers = <<>>
    /\ (fetchers # <<>> /\ UnsettledSources = {}) => pp.pc \in {"fetching", "done"}
    /\ pp.pc = "done" =>
           \A j \in 1..Len(pp.players) :
               LET p == pp.players[j]
                   sd == pp.staticData
               IN /\ p.assetId \notin DOMAIN sd.players => p.name = "Unknown"
                  /\ p.assetId \in DOMAIN sd.players =>
                         p.name = IF sd.players[p.assetId].c # ""
                                  THEN sd.players[p.assetId].c
                                  ELSE sd.players[p.assetId].f \o " "
                                           \o sd.players[p.assetId].l
                  /\ p.nationId \notin DOMAIN sd.nations =>
                         p.nation = "Unknown" /\ p.nationImg = Undefined
                  /\ p.leagueId \notin DOMAIN sd.leagues =>
                         p.league = "Unknown" /\ p.leagueImg = Undefined
                  /\ p.teamId \notin DOMAIN sd.teams =>
                         p.team = "Unknown" /\ p.teamImg = Undefined

\* one list with an item unknown everywhere, an item with a common name and
\* an item named by its given and family names
C10_Witness ==
    /\ pp.pc = "done"
    /\ \E j \in 1..Len(pp.players) :
           /\ pp.players[j].assetId \notin DOMAIN pp.staticData.players
           /\ pp.players[j].nationId \notin DOMAIN pp.staticData.nations
           /\ pp.players[j].leagueId \notin DOMAIN pp.staticData.leagues
           /\ pp.players[j].teamId \notin DOMAIN pp.staticData.teams
           /\ pp.players[j].name = "Unknown"
           /\ pp.players[j].teamImg = Undefined
    /\ \E j \in 1..Len(pp.players) : pp.players[j].name = "Pele"
    /\ \E j \in 1..Len(pp.players) : pp.players[j].name = "Leo Messi"

-----------------------------------------------------------------------------
(* Dashboard: aggregatedPlayers and filteredPlayers (App.tsx)               *)

MaxPlayers == 3
MaxPositions == 2

\* the elements of an array, as a set
Elements(s) == {s[j] : j \in DOMAIN s}

\* the arrays of at most n elements of a set
ArraysUpTo(S, n) == UNION {[1..m -> S] : m \in 0..n}

\* reference data the sample players are resolved against
SampleData ==
    BuildCachedData(CHOOSE r \in PlayersJsonResponses : r.LegendsPlayers # <<>>,
                    BuildFutGGData(CHOOSE r \in FutGGResponses : Len(r.clubs) = 2),
                    1)

\* a second card of the asset of ItemA, with the rating of ItemB, no position
\* and ids the reference data does not have
ItemD == Item(1, 88, <<>>, 7, 9, 8)

\* the ProcessedPlayer records the players state is drawn from
PlayerPool ==
    { Processed(SampleData, ItemA, "Transfer"),
      Processed(SampleData, ItemA, "Storage"),
      Processed(SampleData, ItemA, "Duplicated"),
      Processed(SampleData, ItemB, "Storage"),
      Processed(SampleData, ItemD, "Duplicated") }

PlayerLists == ArraysUpTo(PlayerPool, MaxPlayers)

\* mutant of PlayerKey: the key leaves the rating out
PlayerKeyByAsset(player) == IntToString(player.assetId)

\* App.tsx:655: the map key, a template literal
PlayerKey(player) == IntToString(player.assetId) \o "-" \o IntToString(player.rating)

\* App.tsx:664-668: { ...player, copies: 1, types: [player.type] }
NewEntry(player) ==
    [k \in DOMAIN player \cup {"copies", "types"} |->
        IF k = "copies" THEN 1
        ELSE IF k = "types" THEN <<player.type>>
        ELSE player[k]]

\* App.tsx:659-662: a further record of an entry
Counted(existing, player) ==
    [existing EXCEPT !.copies = @ + 1,
                     !.types = IF player.type \in Elements(@) THEN @
                               ELSE Append(@, player.type)]

\* App.tsx:654-669: one iteration; playerMap is kept as its entries in
\* insertion order, each with its key
AddToPlayerMap(playerMap, player) ==
    LET key == PlayerKey(player)
        found == {j \in DOMAIN playerMap : playerMap[j].key = key}
    IN IF found # {}
       THEN LET j == CHOOSE x \in found : TRUE
            IN [playerMap EXCEPT ![j].value = Counted(@, player)]
       ELSE Append(playerMap, [key |-> key, value |-> NewEntry(player)])

RECURSIVE BuildPlayerMap(_, _)
\* App.tsx:654-670
BuildPlayerMap(playerMap, players) ==
    IF players = <<>> THEN playerMap
    ELSE BuildPlayerMap(AddToPlayerMap(playerMap, Head(players)), Tail(players))

\* App.tsx:651-673: Array.from(playerMap.values())
AggregatedPlayers(players) ==
    LET playerMap == BuildPlayerMap(<<>>, players)
    IN [j \in DOMAIN playerMap |-> playerMap[j].value]

\* the position names of the game that occur here
PositionNames == {"ST", "CF", "RW", "Unknown"}

\* String.prototype.split(' / '): the pieces whose join is the string
Split(position) ==
    CHOOSE parts \in ArraysUpTo(PositionNames, MaxPositions) :
        parts # <<>> /\ Join(parts, " / ") = position

\* mutant of Passes: every type of the entry has to be among the allowed ones
PassesEveryType(player, filters) ==
    /\ ~(player.rating < filters.ratingRange[1] \/ player.rating > filters.ratingRange[2])
    /\ ~(Len(filters.positions) > 0
         /\ ~\E pos \in Elements(filters.positions) : pos \in Elements(Split(player.position)))
    /\ ~(Len(filters.nations) > 0 /\ player.nation \notin Elements(filters.nations))
    /\ ~(Len(filters.leagues) > 0 /\ player.league \notin Elements(filters.leagues))
    /\ ~(Len(filters.teams) > 0 /\ player.team \notin Elements(filters.teams))
    /\ ~(Len(filters.types) > 0
         /\ ~\A type \in Elements(player.types) : type \in Elements(filters.types))
    /\ ~(filters.multipleCopiesOnly /\ player.copies < 2)

\* mutant of Passes: an empty list allows nothing
PassesListedOnly(player, filters) ==
    /\ ~(player.rating < filters.ratingRange[1] \/ player.rating > filters.ratingRange[2])
    /\ \E pos \in Elements(filters.positions) : pos \in Elements(Split(player.position))
    /\ player.nation \in Elements(filters.nations)
    /\ player.league \in Elements(filters.leagues)
    /\ player.team \in Elements(filters.teams)
    /\ \E type \in Elements(player.types) : type \in Elements(filters.types)
    /\ ~(filters.multipleCopiesOnly /\ player.copies < 2)

\* App.tsx:713-747: the callback of filter, one early return after the other
Passes(player, filters) ==
    IF player.rating < filters.ratingRange[1] \/ player.rating > filters.ratingRange[2]
    THEN FALSE
    ELSE IF Len(filters.positions) > 0
            /\ ~\E pos \in Elements(filters.positions) :
                    pos \in Elements(Split(player.position))
    THEN FALSE
    ELSE IF Len(filters.nations) > 0 /\ player.nation \notin Elements(filters.nations)
    THEN FALSE
    ELSE IF Len(filters.leagues) > 0 /\ player.league \notin Elements(filters.leagues)
    THEN FALSE
    ELSE IF Len(filters.teams) > 0 /\ player.team \notin Elements(filters.teams)
    THEN FALSE
    ELSE IF Len(filters.types) > 0
            /\ ~\E type \in Elements(player.types) : type \in Elements(filters.types)
    THEN FALSE
    ELSE IF filters.multipleCopiesOnly /\ player.copies < 2
    THEN FALSE
    ELSE TRUE

\* App.tsx:749: the comparator, b.rating - a.rating
CompareRating(a, b) == b.rating - a.rating

RECURSIVE InsertByRating(_, _)
\* a stable sort puts an element behind every element it does not precede
InsertByRating(sorted, x) ==
    IF sorted = <<>> THEN <<x>>
    ELSE IF CompareRating(Head(sorted), x) > 0
    THEN <<x>> \o sorted
    ELSE <<Head(sorted)>> \o InsertByRating(Tail(sorted), x)

RECURSIVE SortByRating(_)
\* Array.prototype.sort with CompareRating
SortByRating(s) ==
    IF s = <<>> THEN <<>>
    ELSE InsertByRating(SortByRating(SubSeq(s, 1, Len(s) - 1)), s[Len(s)])

\* mutant of FilteredPlayers: the memoized array itself is sorted
FilteredPlayersInPlace(aggregatedPlayers, filters) ==
    LET Test(player) == Passes(player, filters)
        sorted == SortByRating(aggregatedPlayers)
    IN [input |-> sorted, output |-> SelectSeq(sorted, Test)]

\* App.tsx:711-750: filter makes a new array and sort orders that one; input
\* is the array that was passed, as the call leaves it
FilteredPlayers(aggregatedPlayers, filters) ==
    LET Test(player) == Passes(player, filters)
    IN [input |-> aggregatedPlayers,
        output |-> SortByRating(SelectSeq(aggregatedPlayers, Test))]

\* the values the filter controls offer
RatingRanges == {<<47, 99>>, <<80, 90>>}
PositionChoices == {<<>>, <<"GK", "CF">>}
NationChoices == {<<>>, <<"Brazil">>}
LeagueChoices == {<<>>, <<"Premier League", "Unknown">>}
TeamChoices == {<<>>, <<"Arsenal", "Milan">>}
TypeChoices == {<<>>, <<"Storage", "Duplicated">>}

\* one control sets one field: setFilters({ ...filters, field: value })
OneChange(filters) ==
    ({[filters EXCEPT !.ratingRange = v] : v \in RatingRanges}
     \cup {[filters EXCEPT !.positions = v] : v \in PositionChoices}
     \cup {[filters EXCEPT !.nations = v] : v \in NationChoices}
     \cup {[filters EXCEPT !.leagues = v] : v \in LeagueChoices}
     \cup {[filters EXCEPT !.teams = v] : v \in TeamChoices}
     \cup {[filters EXCEPT !.types = v] : v \in TypeChoices}
     \cup {[filters EXCEPT !.multipleCopiesOnly = v] : v \in BOOLEAN})
    \ {filters}

\* App.tsx:616 and the render that follows: setPlayers with the first result;
\* both memoized values are computed again
SetPlayers(players) ==
    /\ app.players = <<>>
    /\ players # <<>>
    /\ LET run == FilteredPlayers(AggregatedPlayers(players), app.filters)
       IN app' = [app EXCEPT !.players = players,
                             !.aggregatedPlayers = run.input,
                             !.filteredPlayers = run.output]
    /\ UNCHANGED <<now, epoch, issued, cachedData, staticDataPromise, populations,
                   staticCalls, sbcVars, ppVars>>

\* setFilters (App.tsx:961-1064, one field or all of them back to their
\* defaults) and the render that follows: aggregatedPlayers is still the
\* memoized array, filteredPlayers is computed again
SetFilters(filters) ==
    /\ LET run == FilteredPlayers(app.aggregatedPlayers, filters)
       IN app' = [app EXCEPT !.filters = filters,
                             !.aggregatedPlayers = run.input,
                             !.filteredPlayers = run.output]
    /\ UNCHANGED <<now, epoch, issued, cachedData, staticDataPromise, populations,
                   staticCalls, sbcVars, ppVars>>

NextView ==
    \/ \E players \in PlayerLists : SetPlayers(players)
    \/ \E filters \in OneChange(app.filters) \cup {DefaultFilters} : SetFilters(filters)

SpecView == InitStatic /\ [][NextView]_vars

-----------------------------------------------------------------------------
(* Properties of the dashboard                                              *)

RECURSIVE SumCopies(_)
\* the copies of all entries together
SumCopies(entries) ==
    IF entries = <<>> THEN 0 ELSE Head(entries).copies + SumCopies(Tail(entries))

\* the records of players with the asset id and rating of an entry
RecordsOf(players, entry) ==
    {i \in DOMAIN players : /\ players[i].assetId = entry.assetId
                            /\ players[i].rating = entry.rating}

\* the place of an entry in an array that holds it once
IndexIn(entries, entry) == CHOOSE j \in DOMAIN entries : entries[j] = entry

\* C11: aggregation yields exactly one entry per distinct (assetId, rating)
\* pair of the input; copies is the number of input records with that pair,
\* types lists each source category of those records once, in order of first
\* appearance, and the copies of all entries sum to the input length.
C11_AggregationCounts ==
    LET in == app.players
        out == app.aggregatedPlayers
        pairs == {<<in[i].assetId, in[i].rating>> : i \in DOMAIN in}
    IN /\ Len(out) = Cardinality(pairs)
       /\ \A pair \in pairs :
              Cardinality({j \in DOMAIN out :
                              <<out[j].assetId, out[j].rating>> = pair}) = 1
       /\ \A j \in DOMAIN out :
              LET same == RecordsOf(in, out[j])
                  types == out[j].types
                  first(t) == CHOOSE i \in same :
                                  /\ in[i].type = t
                                  /\ \A h \in same : in[h].type = t => i <= h
              IN /\ out[j].copies = Cardinality(same)
                 /\ Elements(types) = {in[i].type : i \in same}
                 /\ Len(types) = Cardinality(Elements(types))
                 /\ \A a, b \in DOMAIN types : a < b => first(types[a]) < first(types[b])
       /\ SumCopies(out) = Len(in)

\* two cards of one asset with different ratings stay apart, and the entry of
\* one of them counts two records from two sources
C11_Witness ==
    \E j, k \in DOMAIN app.aggregatedPlayers :
        /\ app.aggregatedPlayers[j].assetId = app.aggregatedPlayers[k].assetId
        /\ app.aggregatedPlayers[j].rating # app.aggregatedPlayers[k].rating
        /\ app.aggregatedPlayers[j].copies = 2
        /\ app.aggregatedPlayers[j].types = <<"Storage", "Transfer">>

\* C12: an entry is in the filter result if and only if its rating is within
\* the inclusive range, each list is empty or allows it (one of its split
\* positions, its nation, league and team name, one of its types), and
\* multipleCopiesOnly is false or it has at least two copies.
C12_FilterIff ==
    LET f == app.filters IN
    /\ Elements(app.filteredPlayers) \subseteq Elements(app.aggregatedPlayers)
    /\ \A j \in DOMAIN app.aggregatedPlayers :
           LET e == app.aggregatedPlayers[j] IN
           (e \in Elements(app.filteredPlayers)) <=>
               /\ f.ratingRange[1] <= e.rating /\ e.rating <= f.ratingRange[2]
               /\ \/ f.positions = <<>>
                  \/ Elements(Split(e.position)) \cap Elements(f.positions) # {}
               /\ f.nations = <<>> \/ e.nation \in Elements(f.nations)
               /\ f.leagues = <<>> \/ e.league \in Elements(f.leagues)
               /\ f.teams = <<>> \/ e.team \in Elements(f.teams)
               /\ f.types = <<>> \/ Elements(e.types) \cap Elements(f.types) # {}
               /\ ~f.multipleCopiesOnly \/ e.copies >= 2

\* every criterion is set, one entry passes and another does not
C12_Witness ==
    /\ app.filters.positions # <<>> /\ app.filters.nations # <<>>
    /\ app.filters.leagues # <<>> /\ app.filters.teams # <<>>
    /\ app.filters.types # <<>> /\ app.filters.multipleCopiesOnly
    /\ app.filteredPlayers # <<>>
    /\ Len(app.filteredPlayers) < Len(app.aggregatedPlayers)
    /\ \E j \in DOMAIN app.filteredPlayers :
           /\ Len(app.filteredPlayers[j].types) = 2
           /\ Len(Split(app.filteredPlayers[j].position)) = 2

\* all five list fields of the filters are empty
NoListCriteria ==
    /\ app.filters.positions = <<>> /\ app.filters.nations = <<>>
    /\ app.filters.leagues = <<>> /\ app.filters.teams = <<>>
    /\ app.filters.types = <<>>

\* C13 as stated: with every list field empty the filter returns every input
\* entry.
C13_EmptyListsNoOp ==
    NoListCriteria =>
        /\ Len(app.filteredPlayers) = Len(app.aggregatedPlayers)
        /\ Elements(app.filteredPlayers) = Elements(app.aggregatedPlayers)

\* C13 amended: with every list field empty, multipleCopiesOnly false and a
\* rating range that contains the rating of every input entry, the filter
\* returns every input entry, re-sorted by descending rating with ties in
\* input order.
C13_EmptyListsInRange ==
    LET in == app.aggregatedPlayers
        out == app.filteredPlayers
    IN (/\ NoListCriteria
        /\ ~app.filters.multipleCopiesOnly
        /\ \A j \in DOMAIN in : /\ app.filters.ratingRange[1] <= in[j].rating
                                /\ in[j].rating <= app.filters.ratingRange[2]) =>
           /\ Len(out) = Len(in)
           /\ \A j \in DOMAIN in : Cardinality({k \in DOMAIN out : out[k] = in[j]}) = 1
           /\ \A a, b \in DOMAIN out :
                  a < b => \/ out[a].rating > out[b].rating
                           \/ /\ out[a].rating = out[b].rating
                              /\ IndexIn(in, out[a]) < IndexIn(in, out[b])

\* three entries pass untouched criteria and come back in another order
C13_Witness ==
    /\ NoListCriteria
    /\ ~app.filters.multipleCopiesOnly
    /\ Len(app.aggregatedPlayers) = 3
    /\ app.aggregatedPlayers[1].rating < app.aggregatedPlayers[3].rating
    /\ Len(app.filteredPlayers) = 3
    /\ app.filteredPlayers # app.aggregatedPlayers

\* C14: the filter leaves the array it is given as aggregation has made it,
\* and returns an array ordered by non-increasing rating in which entries of
\* equal rating keep their relative input order.
C14_PureStableSort ==
    LET in == app.aggregatedPlayers
        out == app.filteredPlayers
    IN /\ in = AggregatedPlayers(app.players)
       /\ \A a \in DOMAIN out : \E j \in DOMAIN in : out[a] = in[j]
       /\ \A a, b \in DOMAIN out :
              a < b =>
                  /\ out[a].rating >= out[b].rating
                  /\ out[a].rating = out[b].rating =>
                         IndexIn(in, out[a]) < IndexIn(in, out[b])

\* the filters have been changed, the input is not in rating order, and the
\* result holds two entries of equal rating behind a higher one
C14_Witness ==
    /\ app.filters # DefaultFilters
    /\ Len(app.aggregatedPlayers) = 3
    /\ app.aggregatedPlayers[1].rating < app.aggregatedPlayers[3].rating
    /\ Len(app.filteredPlayers) = 3
    /\ app.filteredPlayers[2].rating = app.filteredPlayers[3].rating
    /\ app.filteredPlayers[1] = app.aggregatedPlayers[3]

-----------------------------------------------------------------------------
(* Properties of the SBC ranking                                            *)

\* the calls whose /sbs/sets request has answered
Answered == {i \in 1..Len(sbcCalls) : sbcCalls[i].setsReq # Null /\ sbcCalls[i].setsReq.st = "ok"}

\* the sets upstream has listed for call i, category after category
UpstreamSets(i) == FlattenCategories(sbcCalls[i].setsReq.body.categories)

\* C15: on a miss a repeatable set is dropped exactly when timesCompleted >=
\* repeats and no challenge remains, a non-repeatable set exactly when no
\* challenge remains; every other set is kept, in upstream order, with its
\* challengesCount replaced by the remaining count.
C15_Exclusion ==
    \A i \in Answered :
        LET all == UpstreamSets(i)
            Remaining(set) == set.challengesCount - set.challengesCompletedCount
            Kept(set) == IF set.repeatable
                         THEN ~(set.timesCompleted >= set.repeats /\ Remaining(set) = 0)
                         ELSE ~(Remaining(set) = 0)
            kept == SelectSeq(all, Kept)
        IN /\ Len(sbcCalls[i].sets) = Len(kept)
           /\ \A j \in DOMAIN kept :
                  sbcCalls[i].sets[j] = [kept[j] EXCEPT !.challengesCount = Remaining(kept[j])]
           /\ sbcCalls[i].pc = "done" =>
                  {<<x.setId, x.challengesCount>> : x \in Elements(sbcCalls[i].result.items)}
                      = {<<kept[j].setId, Remaining(kept[j])>> : j \in DOMAIN kept}

\* a ranking that has the repeatable set 2 with nothing remaining (completed
\* once of twice), has the repeatable set 6 with two challenges remaining, and
\* lacks the exhausted set 4
C15_Witness ==
    \E i \in Answered :
        /\ sbcCalls[i].pc = "done"
        /\ \E x \in Elements(sbcCalls[i].result.items) : x.setId = 2 /\ x.challengesCount = 0
        /\ \E x \in Elements(sbcCalls[i].result.items) : x.setId = 6 /\ x.challengesCount = 2
        /\ \E j \in DOMAIN UpstreamSets(i) : UpstreamSets(i)[j].setId = 4
        /\ ~\E x \in Elements(sbcCalls[i].result.items) : x.setId = 4

\* C16: when the vote request fails the call still resolves, with every
\* surviving set at likes 0, dislikes 0, likePercent 0 and rankScore 0, in the
\* order the surviving sets have upstream.
C16_VotesOptional ==
    \A i \in 1..Len(sbcCalls) :
        sbcCalls[i].votes = "failed" =>
            /\ sbcCalls[i].pc = "done"
            /\ sbcCalls[i].result.items =
                   [j \in 1..Len(sbcCalls[i].sets) |->
                       [setId |-> sbcCalls[i].sets[j].setId,
                        name |-> sbcCalls[i].sets[j].name,
                        challengesCount |-> sbcCalls[i].sets[j].challengesCount,
                        likes |-> 0, dislikes |-> 0, likePercent |-> 0, rankScore |-> 0]]

\* a call whose vote request has failed has returned five sets
C16_Witness ==
    \E i \in 1..Len(sbcCalls) :
        /\ sbcCalls[i].votes = "failed"
        /\ sbcCalls[i].pc = "done"
        /\ Len(sbcCalls[i].result.items) = 5
        /\ sbcCache # Null /\ sbcCache.data = sbcCalls[i].result

\* C17: the rank score is 0 for no votes; with no dislikes and n > 0 likes it
\* is strictly between 0 and 1 and strictly increasing in n, so 10 likes score
\* higher than 5.
C17_RankScoreShape ==
    \A i \in Computed :
        \A x, y \in Elements(sbcCalls[i].result.items) :
            /\ (x.likes = 0 /\ x.dislikes = 0) => x.rankScore = 0
            /\ (x.likes > 0 /\ x.dislikes = 0) => (0 < x.rankScore /\ x.rankScore < Scale)
            /\ (x.dislikes = 0 /\ y.dislikes = 0 /\ 0 < x.likes /\ x.likes < y.likes) =>
                   x.rankScore < y.rankScore

\* a ranking with a set at 10 likes ahead of a set at 5 likes, neither with
\* dislikes
C17_Witness ==
    \E i \in Computed :
        /\ Len(sbcCalls[i].result.items) >= 2
        /\ sbcCalls[i].result.items[1].likes = 10
        /\ sbcCalls[i].result.items[1].dislikes = 0
        /\ \E j \in DOMAIN sbcCalls[i].result.items :
               /\ sbcCalls[i].result.items[j].likes = 5
               /\ sbcCalls[i].result.items[j].dislikes = 0
               /\ sbcCalls[i].result.items[j].rankScore > 0

\* the place upstream of the element at place a of items: the n-th element of
\* items with a setId is the n-th surviving set with that setId
UpstreamPlace(sets, items, a) ==
    LET n == Cardinality({h \in 1..a : items[h].setId = items[a].setId})
    IN CHOOSE j \in DOMAIN sets :
           /\ sets[j].setId = items[a].setId
           /\ Cardinality({h \in 1..j : sets[h].setId = items[a].setId}) = n

\* C18: the array returned on a miss has one element per surviving set (the
\* same setIds as often), is ordered by non-increasing rankScore, and elements
\* of equal rankScore keep the relative order of the upstream list.
C18_RankedOrder ==
    \A i \in Computed :
        LET items == sbcCalls[i].result.items
            sets == sbcCalls[i].sets
        IN /\ Len(items) = Len(sets)
           /\ \A id \in {sets[j].setId : j \in DOMAIN sets}
                        \cup {items[j].setId : j \in DOMAIN items} :
                  Cardinality({j \in DOMAIN items : items[j].setId = id})
                      = Cardinality({j \in DOMAIN sets : sets[j].setId = id})
           /\ \A a, b \in DOMAIN items :
                  a < b =>
                      /\ items[a].rankScore >= items[b].rankScore
                      /\ items[a].rankScore = items[b].rankScore =>
                             UpstreamPlace(sets, items, a) < UpstreamPlace(sets, items, b)

\* set 1 has overtaken set 5, which upstream comes first and twice, and the
\* sets 5 and 5 tie above zero
C18_Witness ==
    \E i \in Computed :
        /\ Len(sbcCalls[i].result.items) = 5
        /\ sbcCalls[i].result.items[1].setId = 1
        /\ sbcCalls[i].result.items[2].setId = 5
        /\ sbcCalls[i].result.items[3].setId = 5
        /\ sbcCalls[i].result.items[2].rankScore > 0
        /\ sbcCalls[i].result.items[4].setId = 2
        /\ sbcCalls[i].result.items[5].setId = 6

\* C19: when the /sbs/sets request fails the call rejects with that error
\* after its single request (no retry, no empty result, no vote request), and
\* neither the start of a call nor the failure changes the SBC ranking cache.
C19_SetsFailurePropagates ==
    [][/\ SbcCallStarts => sbcCache' = sbcCache
       /\ \A i \in 1..Len(sbcCalls) :
              (sbcCalls[i].pc = "sets" /\ sbcCalls'[i].setsReq.st = "failed") =>
                  /\ sbcCalls'[i].pc = "rejected"
                  /\ sbcCalls'[i].error = sbcCalls'[i].setsReq.err
                  /\ sbcCalls'[i].result = Null
                  /\ sbcCalls'[i].requests = 1
                  /\ sbcCalls'[i].votes = "none"
                  /\ issued' = issued
                  /\ sbcCache' = sbcCache]_vars

\* a call that has found an expired entry has been rejected, and the entry is
\* still there
C19_Witness ==
    \E i \in 1..Len(sbcCalls) :
        /\ sbcCalls[i].pc = "rejected"
        /\ sbcCalls[i].found = "expired"
        /\ sbcCalls[i].error \in Errors
        /\ sbcCache # Null
        /\ sbcCache.data.builtBy # i

-----------------------------------------------------------------------------
(* Loading the reference data: fetchStaticData with processPlayers          *)

\* fetchStaticData and clearCache called at any time, and one processPlayers
\* call up to the start of its item requests (the token plays no part in the
\* loading)
NextLoad ==
    \/ FetchStaticData
    \/ \E p \in 1..MaxStaticCalls : PlayersJsonSettles(p)
    \/ \E p \in 1..MaxStaticCalls : FutGGSettles(p)
    \/ ClearCache
    \/ ProcessPlayers("sidA")
    \/ ProcessPlayersResumes

SpecLoad == InitStatic /\ [][NextLoad]_vars

\* the item requests issued so far
ItemRequests == issued["tradepile"] + issued["storagepile"] + issued["purchased/items"]

\* C20: a population issues the catalog and the metadata request together and
\* fulfils only if both answer; if either fails every caller attached to it is
\* rejected with that error, the population never puts anything into
\* cachedData (which holds nothing at all unless clearCache has been called,
\* and otherwise only the complete data of a population that fulfilled), and
\* processPlayers rejects without issuing an item request.
C20_StrictJoin ==
    /\ issued["players.json"] = Len(populations)
    /\ issued["fc-core-data"] = Len(populations)
    /\ \A p \in 1..Len(populations) :
           LET pop == populations[p] IN
           /\ pop.state = "fulfilled" => (pop.players.st = "ok" /\ pop.futgg.st = "ok")
           /\ (pop.players.st = "failed" \/ pop.futgg.st = "failed") =>
                  /\ pop.state = "rejected"
                  /\ pop.error \in {pop.players.err, pop.futgg.err} \ {NoError}
                  /\ pop.value = Null
                  /\ cachedData = Null \/ cachedData.builtBy # p
                  /\ epoch = 0 => cachedData = Null
                  /\ \A c \in 1..Len(staticCalls) :
                         staticCalls[c].pop = p =>
                             /\ StaticOutcome(c).state = "rejected"
                             /\ StaticOutcome(c).error = pop.error
                  /\ (pp.pc # "idle" /\ staticCalls[pp.call].pop = p) =>
                         /\ pp.pc \in {"static", "rejected"}
                         /\ pp.pc = "rejected" => pp.error = pop.error
                         /\ fetchers = <<>>
                         /\ ItemRequests = 0
    /\ cachedData # Null =>
           LET pop == populations[cachedData.builtBy] IN
           /\ pop.state = "fulfilled"
           /\ cachedData.players = BuildPlayersMap(pop.players.body)
           /\ cachedData.teams = BuildFutGGData(pop.futgg.body).teams
           /\ cachedData.nations = BuildFutGGData(pop.futgg.body).nations
           /\ cachedData.leagues = BuildFutGGData(pop.futgg.body).leagues

\* the catalog has answered and the metadata request has failed; a
\* fetchStaticData call and processPlayers were waiting for that population
C20_Witness ==
    /\ epoch = 0
    /\ Len(populations) = 1
    /\ populations[1].players.st = "ok"
    /\ populations[1].futgg.st = "failed"
    /\ Len(staticCalls) = 2
    /\ pp.pc = "rejected"
    /\ pp.error = populations[1].futgg.err
    /\ cachedData = Null
    /\ ItemRequests = 0

-----------------------------------------------------------------------------
(* The statistics of the dashboard: App.tsx:275-290 and 836-841             *)

\* TypeDistributionChart: every type of an entry is credited with all the
\* copies of the entry
RECURSIVE AddTypes(_, _, _)
AddTypes(counts, types, copies) ==
    IF types = <<>> THEN counts
    ELSE AddTypes([counts EXCEPT ![Head(types)] = @ + copies], Tail(types), copies)

RECURSIVE TypeCounts(_, _)
TypeCounts(counts, players) ==
    IF players = <<>> THEN counts
    ELSE TypeCounts(AddTypes(counts, Head(players).types, Head(players).copies),
                    Tail(players))

distribution ==
    TypeCounts([type \in {"Transfer", "Storage", "Duplicated"} |-> 0],
               app.filteredPlayers)

uniquePlayersCount == Len(app.filteredPlayers)

totalCardsCount == SumCopies(app.filteredPlayers)

RECURSIVE SumExtraCopies(_)
SumExtraCopies(entries) ==
    IF entries = <<>> THEN 0
    ELSE (IF Head(entries).copies > 1 THEN Head(entries).copies - 1 ELSE 0)
         + SumExtraCopies(Tail(entries))

duplicatesCount == SumExtraCopies(app.filteredPlayers)

\* C30: the three counts of "Cards by Location" sum to the total card count of
\* the filtered list, and the Players count plus the Dupes count equals that
\* total card count.
C30_CountsAddUp ==
    /\ distribution["Transfer"] + distribution["Storage"] + distribution["Duplicated"]
           = totalCardsCount
    /\ uniquePlayersCount + duplicatesCount = totalCardsCount

-----------------------------------------------------------------------------
(* Properties of a failed population of the reference data                  *)

\* a fetchStaticData call is made in this step (on its own or by processPlayers)
StaticCallStarts == Len(staticCalls') = Len(staticCalls) + 1

\* the calls that have been rejected and that no clearCache has followed
RejectedSinceClear ==
    {c \in 1..Len(staticCalls) :
        /\ staticCalls[c].epoch = epoch
        /\ StaticOutcome(c).state = "rejected"}

\* what the promise of the call made in this step has settled to
NewStaticOutcome ==
    LET call == staticCalls'[Len(staticCalls')]
    IN IF call.src = "cache"
       THEN [state |-> "fulfilled", error |-> NoError]
       ELSE [state |-> populations'[call.pop].state,
             error |-> populations'[call.pop].error]

\* C24: once a fetchStaticData call has been rejected, every later call with
\* no clearCache in between is rejected with the same error and issues no
\* request.
C24_StickyFailure ==
    [][\A c \in RejectedSinceClear :
           StaticCallStarts =>
               /\ issued' = issued
               /\ NewStaticOutcome.state = "rejected"
               /\ NewStaticOutcome.error = StaticOutcome(c).error]_vars

-----------------------------------------------------------------------------
(* Properties of the SBC ranking cache across tokens and vote failures      *)

\* the call made in this step
NewSbcCall == sbcCalls'[Len(sbcCalls')]

\* the call whose ranking is the one most recently stored
LastStored == sbcCache.data.builtBy

\* C25: the SBC ranking cache is not keyed by the token: a call made with
\* another token than the one the most recently stored (non-empty) ranking was
\* computed with, less than 5 minutes after that ranking was returned, returns
\* that very array and issues no request, so its token is never sent.
C25_NotKeyedByToken ==
    [][(/\ SbcCallStarts
        /\ sbcCache # Null
        /\ sbcCalls[LastStored].pc = "done"
        /\ sbcCalls[LastStored].result.items # <<>>
        /\ NewSbcCall.sid # sbcCalls[LastStored].sid
        /\ now - sbcCalls[LastStored].doneAt < SBC_CACHE_DURATION) =>
            /\ NewSbcCall.pc = "done"
            /\ NewSbcCall.result = sbcCalls[LastStored].result
            /\ NewSbcCall.requests = 0
            /\ issued' = issued
            /\ sentSids' = sentSids]_vars

\* a ranking computed with sidA has been returned to a call made with sidB one
\* millisecond before the window closed, and sidB has never been sent
C25_Witness ==
    /\ Len(sbcCalls) = 2
    /\ sbcCalls[1].sid = "sidA" /\ sbcCalls[1].found = "nothing"
    /\ sbcCalls[1].pc = "done" /\ sbcCalls[1].doneAt = 0
    /\ sbcCalls[2].sid = "sidB" /\ sbcCalls[2].found = "fresh"
    /\ sbcCalls[2].pc = "done" /\ sbcCalls[2].doneAt = SBC_CACHE_DURATION - 1
    /\ sbcCalls[2].result = sbcCalls[1].result
    /\ Len(sbcCalls[2].result.items) = 3
    /\ sentSids = {"sidA"}

\* every item of a ranking has no votes and the score 0
AllZeroVotes(result) ==
    \A k \in DOMAIN result.items :
        /\ result.items[k].likes = 0
        /\ result.items[k].dislikes = 0
        /\ result.items[k].rankScore = 0

\* the calls that return in this step a ranking made after their vote request
\* failed
ReturnsWithoutVotes ==
    {i \in 1..Len(sbcCalls) :
        /\ sbcCalls[i].pc = "votes"
        /\ sbcCalls'[i].pc = "done"
        /\ sbcCalls'[i].votes = "failed"}

\* C26: a ranking computed while the vote request failed is stored like any
\* other, with the time of its return; while it is the stored ranking (no
\* clearCache and no other computation's store since) every call started less
\* than 5 minutes after it was returned returns that all-zero-vote ranking
\* and issues no request, the vote request included.
C26_FailedVotesCached ==
    [][/\ \A i \in ReturnsWithoutVotes :
              /\ AllZeroVotes(sbcCalls'[i].result)
              /\ sbcCache' = [data |-> sbcCalls'[i].result, timestamp |-> now]
       /\ (/\ SbcCallStarts
           /\ sbcCache # Null
           /\ sbcCalls[LastStored].votes = "failed"
           /\ sbcCalls[LastStored].doneEpoch = epoch
           /\ now - sbcCalls[LastStored].doneAt < SBC_CACHE_DURATION) =>
               /\ NewSbcCall.pc = "done"
               /\ NewSbcCall.result = sbcCalls[LastStored].result
               /\ AllZeroVotes(NewSbcCall.result)
               /\ NewSbcCall.votes = "none"
               /\ NewSbcCall.requests = 0
               /\ issued' = issued]_vars

\* the vote request of the first call failed; a second call, made one
\* millisecond before the window closed, has returned the first call's ranking
\* and the vote endpoint has been asked once
C26_Witness ==
    /\ Len(sbcCalls) = 2
    /\ sbcCalls[1].votes = "failed" /\ sbcCalls[1].pc = "done"
    /\ sbcCalls[1].doneAt = 0
    /\ sbcCalls[2].found = "fresh" /\ sbcCalls[2].pc = "done"
    /\ sbcCalls[2].doneAt = SBC_CACHE_DURATION - 1
    /\ sbcCalls[2].result = sbcCalls[1].result
    /\ sbcCalls[2].result.items # <<>>
    /\ issued["vote/votes"] = 1
    /\ epoch = 0

-----------------------------------------------------------------------------
(* The App component: startup, token, refresh timer and fetchData           *)

MaxRequests == 2

\* App.tsx:635: the period of the refresh timer, in milliseconds
RefreshMs == 60000

\* values typed into the token field
TokenInputs == {"", " ", "sidA", "sidB "}

\* String.prototype.trim on those values
Trim(s) ==
    CASE s = " " -> ""
      [] s = "sidB " -> "sidB"
      [] OTHER -> s

\* what processPlayers can fulfil with: the players and the warnings
FetchResults ==
    { [players |-> <<Processed(SampleData, ItemA, "Transfer")>>, warnings |-> <<>>],
      [players |-> <<Processed(SampleData, ItemB, "Storage")>>,
       warnings |-> <<WarningText("tradepile", "timeout")>>] }

\* App.tsx:601-608, the mount effect: fetchStaticData() is called
Mount ==
    /\ app.startup = 0
    /\ StaticCall
    /\ app' = [app EXCEPT !.startup = Len(staticCalls) + 1]
    /\ UNCHANGED <<now, epoch, sbcVars, ppVars>>

\* App.tsx:603-607: the promise of the mount effect has settled; the then
\* handler and the catch handler both end the loading screen, and the catch
\* handler logs the error
StartupSettles ==
    /\ app.startup # 0
    /\ app.staticDataLoading
    /\ StaticOutcome(app.startup).state \in {"fulfilled", "rejected"}
    /\ app' = [app EXCEPT !.staticDataLoading = FALSE]
    /\ UNCHANGED <<now, epoch, issued, cachedData, staticDataPromise, populations,
                   staticCalls, sbcVars, ppVars>>

\* a request of fetchData: the trimmed token it was made with, how it has
\* settled, its place among the settled requests and the time it settled at
Request(sid) ==
    [sid |-> sid, st |-> "pending", result |-> Null, error |-> NoError, order |-> 0,
     at |-> 0]

\* the number of requests that have settled
Settled(a) == Cardinality({k \in DOMAIN a.requests : a.requests[k].st # "pending"})

\* App.tsx:622-626: the catch and finally blocks of request k
Rejected(a, k, e) ==
    [a EXCEPT !.error = e, !.loading = FALSE,
              !.requests[k] = [@ EXCEPT !.st = "rejected", !.error = e,
                                        !.order = Settled(a) + 1, !.at = now]]

\* App.tsx:610-618: fetchData of a render whose token is sid, up to the await.
\* processPlayers awaits fetchStaticData first (api.ts:221): when the
\* population has failed it is handed the rejected promise and rejects before
\* any other task can run
FetchData(a, sid) ==
    IF Trim(sid) = "" THEN a
    ELSE LET started == [a EXCEPT !.loading = TRUE, !.error = NoError, !.warnings = <<>>,
                                  !.requests = Append(@, Request(Trim(sid)))]
         IN IF cachedData = Null /\ staticDataPromise # 0
               /\ populations[staticDataPromise].state = "rejected"
            THEN Rejected(started, Len(started.requests), populations[staticDataPromise].error)
            ELSE started

\* mutant of ClearInterval: the timer is left running
ClearIntervalLeaves(timers, id) == timers

\* clearInterval(id)
ClearInterval(timers, id) == {t \in timers : t.id # id}

\* App.tsx:629-643 when the token has changed to sid: the cleanup of the
\* previous effect clears the interval the ref holds, the effect clears it
\* again and, when the token is not blank, sets an interval that calls the
\* fetchData of this render and keeps its id in the ref
IntervalEffect(a, sid) ==
    LET cleaned == IF a.refreshIntervalRef # 0
                   THEN ClearInterval(a.timers, a.refreshIntervalRef) ELSE a.timers
        cleared == IF a.refreshIntervalRef # 0
                   THEN ClearInterval(cleaned, a.refreshIntervalRef) ELSE cleaned
    IN IF Trim(sid) # ""
       THEN [a EXCEPT !.timers = cleared \cup
                                     {[id |-> a.intervals + 1, sid |-> sid, ms |-> RefreshMs]},
                      !.refreshIntervalRef = a.intervals + 1,
                      !.intervals = a.intervals + 1]
       ELSE [a EXCEPT !.timers = cleared]

\* App.tsx:872: setSid(e.target.value), the render and the two effects that
\* depend on the token (App.tsx:629-649); the field is on screen once the
\* loading screen has gone (App.tsx:843-852)
SetSid(value) ==
    /\ app.startup # 0
    /\ ~app.staticDataLoading
    /\ value # app.sid
    /\ Trim(value) # "" => Len(app.requests) < MaxRequests
    /\ app' = FetchData(IntervalEffect([app EXCEPT !.sid = value], value), value)
    /\ UNCHANGED <<now, epoch, issued, cachedData, staticDataPromise, populations,
                   staticCalls, sbcVars, ppVars>>

\* a refresh timer fires and calls the fetchData it was set with
IntervalFires(t) ==
    /\ t \in app.timers
    /\ Len(app.requests) < MaxRequests
    /\ app' = FetchData(app, t.sid)
    /\ UNCHANGED <<now, epoch, issued, cachedData, staticDataPromise, populations,
                   staticCalls, sbcVars, ppVars>>

\* App.tsx:882-891: the refresh button, disabled while the token is blank
RefreshClick ==
    /\ app.startup # 0
    /\ ~app.staticDataLoading
    /\ Trim(app.sid) # ""
    /\ Len(app.requests) < MaxRequests
    /\ app' = FetchData(app, app.sid)
    /\ UNCHANGED <<now, epoch, issued, cachedData, staticDataPromise, populations,
                   staticCalls, sbcVars, ppVars>>

\* mutant of FetchDataResolves: only the request issued last is applied
FetchDataResolvesLatestOnly(k, result) ==
    /\ k \in DOMAIN app.requests
    /\ app.requests[k].st = "pending"
    /\ LET run == FilteredPlayers(AggregatedPlayers(result.players), app.filters)
           settled == [app EXCEPT !.requests[k] = [@ EXCEPT !.st = "fulfilled",
                                                            !.result = result,
                                                            !.order = Settled(app) + 1,
                                                            !.at = now]]
       IN app' = IF k = Len(app.requests)
                 THEN [settled EXCEPT !.players = result.players,
                                      !.aggregatedPlayers = run.input,
                                      !.filteredPlayers = run.output,
                                      !.warnings = result.warnings,
                                      !.lastRefresh = now,
                                      !.loading = FALSE]
                 ELSE settled
    /\ UNCHANGED <<now, epoch, issued, cachedData, staticDataPromise, populations,
                   staticCalls, sbcVars, ppVars>>

\* App.tsx:618-621 and 625: processPlayers of request k fulfils with result;
\* the memoized values are computed again in the render that follows
FetchDataResolves(k, result) ==
    /\ k \in DOMAIN app.requests
    /\ app.requests[k].st = "pending"
    /\ LET run == FilteredPlayers(AggregatedPlayers(result.players), app.filters)
       IN app' = [app EXCEPT !.players = result.players,
                             !.aggregatedPlayers = run.input,
                             !.filteredPlayers = run.output,
                             !.warnings = result.warnings,
                             !.lastRefresh = now,
                             !.loading = FALSE,
                             !.requests[k] = [@ EXCEPT !.st = "fulfilled",
                                                       !.result = result,
                                                       !.order = Settled(app) + 1,
                                                       !.at = now]]
    /\ UNCHANGED <<now, epoch, issued, cachedData, staticDataPromise, populations,
                   staticCalls, sbcVars, ppVars>>

\* the startup of the component, and the token field and the refresh button
\* once the loading screen has gone
NextStartup ==
    \/ Mount
    \/ \E p \in 1..MaxStaticCalls : PlayersJsonSettles(p)
    \/ \E p \in 1..MaxStaticCalls : FutGGSettles(p)
    \/ StartupSettles
    \/ \E value \in TokenInputs : SetSid(value)
    \/ RefreshClick

SpecStartup == InitStatic /\ [][NextStartup]_vars

\* the module and the component when the population started by the mount
\* effect has fulfilled, before its then handler has run
InitLoaded ==
    LET pop == Resume([NewPopulation EXCEPT
                           !.players = Ok(CHOOSE r \in PlayersJsonResponses :
                                              r.LegendsPlayers # <<>>),
                           !.futgg = Ok(CHOOSE r \in FutGGResponses : Len(r.clubs) = 2)], 1)
    IN /\ now = 0
       /\ epoch = 0
       /\ issued = [e \in Endpoints |->
                       IF e \in {"players.json", "fc-core-data"} THEN 1 ELSE 0]
       /\ cachedData = pop.value
       /\ staticDataPromise = 1
       /\ populations = <<pop>>
       /\ staticCalls = <<[src |-> "promise", pop |-> 1, value |-> Null, epoch |-> 0]>>
       /\ sbcCache = Null
       /\ sbcCalls = <<>>
       /\ sentSids = {}
       /\ fetchers = <<>>
       /\ pp = [pc |-> "idle", sid |-> "", call |-> 0, staticData |-> Null,
                warnings |-> <<>>, results |-> EmptyMap, firstSettled |-> "",
                players |-> <<>>, error |-> NoError]
       /\ app = [AppInit EXCEPT !.startup = 1]

\* the component with the reference data loaded: token changes, refreshes and
\* the answers of processPlayers in any order
NextApp ==
    \/ StartupSettles
    \/ \E value \in TokenInputs : SetSid(value)
    \/ \E t \in app.timers : IntervalFires(t)
    \/ RefreshClick
    \/ \E k \in 1..MaxRequests, result \in FetchResults : FetchDataResolves(k, result)
    \/ TickSbc

SpecApp == InitLoaded /\ [][NextApp]_vars

-----------------------------------------------------------------------------
(* Properties of the App component                                          *)

\* the requests of fetchData that are in flight
InFlight == {k \in DOMAIN app.requests : app.requests[k].st = "pending"}

\* the requests that fulfil in this step
Resolving ==
    {k \in InFlight : app'.requests[k].st = "fulfilled"}

\* the request that settled last
LastSettled == CHOOSE k \in DOMAIN app.requests : app.requests[k].order = Settled(app)

\* whichever request settled last is fulfilled and its result is on display
ShowsLastSettled ==
    (app.requests # <<>> /\ InFlight = {}) =>
        /\ app.requests[LastSettled].st = "fulfilled"
        /\ app.players = app.requests[LastSettled].result.players
        /\ app.warnings = app.requests[LastSettled].result.warnings
        /\ app.lastRefresh = app.requests[LastSettled].at

\* C21: each result is applied to players, warnings and lastRefresh in the
\* step in which its own request resolves, whatever else is in flight, so once
\* all requests have resolved the display is that of the request that resolved
\* last, whichever was issued last.
C21_LastResolvedWins ==
    [][/\ \A k \in Resolving :
              /\ app'.players = app'.requests[k].result.players
              /\ app'.warnings = app'.requests[k].result.warnings
              /\ app'.lastRefresh = now
       /\ ShowsLastSettled']_vars

\* two requests overlapped, for different tokens; the one issued last resolved
\* first, and the display holds the result of the one issued first
C21_Witness ==
    /\ Len(app.requests) = 2
    /\ InFlight = {}
    /\ app.requests[1].sid = "sidA" /\ app.requests[2].sid = "sidB"
    /\ app.requests[2].order = 1 /\ app.requests[1].order = 2
    /\ app.requests[2].at < app.requests[1].at
    /\ app.requests[1].result # app.requests[2].result
    /\ app.sid = "sidB "
    /\ app.players = app.requests[1].result.players
    /\ app.warnings # <<>>

\* the request made in this step, when one is made
NewRequest == app'.requests[Len(app'.requests)]

\* C22: while the token is not blank exactly one refresh timer is set, of 60
\* seconds, the one the ref holds, and it calls the fetchData of the current
\* token; while the token is blank no timer is set. A change of the token
\* leaves none of the earlier timers set and makes exactly one request, for
\* the new token, when that is not blank and none when it is; and no request
\* is ever made but for the current, non-blank token.
C22_OneRefreshTimer ==
    [][/\ Trim(app'.sid) # "" =>
              /\ Cardinality(app'.timers) = 1
              /\ \A t \in app'.timers : /\ t.sid = app'.sid
                                        /\ t.ms = 60000
                                        /\ t.id = app'.refreshIntervalRef
       /\ Trim(app'.sid) = "" => app'.timers = {}
       /\ app'.sid # app.sid =>
              /\ app'.timers \cap app.timers = {}
              /\ Len(app'.requests) = Len(app.requests)
                                          + (IF Trim(app'.sid) # "" THEN 1 ELSE 0)
       /\ Len(app'.requests) # Len(app.requests) =>
              /\ Len(app'.requests) = Len(app.requests) + 1
              /\ Trim(app'.sid) # ""
              /\ NewRequest.sid = Trim(app'.sid)]_vars

\* the token has been changed from one non-blank value to another: the second
\* timer is the only one set, and each change has made its request
C22_Witness ==
    /\ app.sid = "sidB "
    /\ app.intervals = 2
    /\ app.timers = {[id |-> 2, sid |-> "sidB ", ms |-> 60000]}
    /\ Len(app.requests) = 2
    /\ app.requests[1].sid = "sidA"
    /\ app.requests[2].sid = "sidB"

\* C27: the loading flag is true whenever at least one request of fetchData is
\* in flight.
C27_LoadingWhileInFlight == InFlight # {} => app.loading

\* the population started at startup has failed
StartupFailed ==
    /\ app.startup # 0
    /\ StaticOutcome(app.startup).state = "rejected"

\* C23: after a failed fetchStaticData at startup the view does not leave the
\* loading screen for the dashboard with no error recorded.
C23_BlockingError ==
    (StartupFailed /\ ~app.staticDataLoading) => app.error # NoError

-----------------------------------------------------------------------------
(* The SBCList component: the ranking load and the challenge drill-down     *)

MaxLoads == 2
MaxClicks == 2

\* the tokens SBCList is rendered with (App.tsx:905, 1219: only while the
\* token is not blank)
ListTokens == {sid \in TokenInputs : Trim(sid) # ""}

\* the arrays fetchAllSBCsWithDetails can fulfil with
Rankings ==
    { SortRanked(<<>>, MapWithDetails(SurvivingSets(FlattenCategories(body.categories)),
                                      EmptyMap)) : body \in SetsResponses }

\* a load of the effect: cancelled is the variable of its closure, st and
\* body how fetchAllSBCsWithDetails has settled
Load(s) ==
    [sid |-> s.sid, instance |-> s.instance, cancelled |-> FALSE, st |-> "pending",
     body |-> Null]

\* mutant of Cleanup: the load of the effect is left as it is
CleanupKeepsLoad(s) == [s EXCEPT !.fetchingRef = FALSE]

\* App.tsx:365-368, the cleanup of the effect; the effect of a render is the
\* one whose load was started last by this instance
Cleanup(s) ==
    [s EXCEPT !.fetchingRef = FALSE,
              !.loads = [k \in DOMAIN @ |->
                            IF k = Len(@) /\ @[k].instance = s.instance
                            THEN [@[k] EXCEPT !.cancelled = TRUE] ELSE @[k]]]

\* App.tsx:329-363, the effect up to the await of loadSBCs
Effect(s) ==
    IF Trim(s.sid) = "" THEN [s EXCEPT !.sbcs = <<>>, !.loading = FALSE]
    ELSE IF s.fetchingRef THEN s
    ELSE [s EXCEPT !.fetchingRef = TRUE, !.loading = TRUE, !.error = NoError,
                   !.loads = Append(@, Load(s))]

\* SBCList is mounted with the token sid and its effect runs
SBCListMounts(sid) ==
    /\ ~app.sbcList.mounted
    /\ Len(app.sbcList.loads) < MaxLoads
    /\ app' = [app EXCEPT !.sbcList =
                  Effect([SBCListInit EXCEPT !.mounted = TRUE, !.sid = sid,
                                             !.instance = app.sbcList.instance + 1,
                                             !.loads = app.sbcList.loads,
                                             !.clicks = app.sbcList.clicks])]
    /\ UNCHANGED <<now, epoch, issued, cachedData, staticDataPromise, populations,
                   staticCalls, sbcVars, ppVars>>

\* the token changes to another non-blank value: the cleanup of the previous
\* effect runs, then the effect
SBCListSidChanges(sid) ==
    /\ app.sbcList.mounted
    /\ sid # app.sbcList.sid
    /\ Len(app.sbcList.loads) < MaxLoads
    /\ app' = [app EXCEPT !.sbcList = Effect([Cleanup(@) EXCEPT !.sid = sid])]
    /\ UNCHANGED <<now, epoch, issued, cachedData, staticDataPromise, populations,
                   staticCalls, sbcVars, ppVars>>

\* the token becomes blank and App stops rendering SBCList: the cleanup runs
\* and the state of the component is gone
SBCListUnmounts ==
    /\ app.sbcList.mounted
    /\ app' = [app EXCEPT !.sbcList =
                  [SBCListInit EXCEPT !.instance = app.sbcList.instance,
                                      !.loads = Cleanup(app.sbcList).loads,
                                      !.clicks = app.sbcList.clicks]]
    /\ UNCHANGED <<now, epoch, issued, cachedData, staticDataPromise, populations,
                   staticCalls, sbcVars, ppVars>>

\* the component that made a load or a request is still the one on screen
Alive(s, r) == s.mounted /\ r.instance = s.instance

\* App.tsx:343-358: fetchAllSBCsWithDetails of load k settles, with an array
\* or an error
LoadSettles(k, outcome) ==
    LET s == app.sbcList
        load == s.loads[k]
        done == [s EXCEPT !.loads[k].st = outcome.st, !.loads[k].body = outcome.body]
        shown == IF load.cancelled \/ ~Alive(s, load) THEN done
                 ELSE IF outcome.st = "ok"
                 THEN [done EXCEPT !.sbcs = outcome.body, !.loading = FALSE]
                 ELSE [done EXCEPT !.error = outcome.err, !.loading = FALSE]
    IN /\ k \in DOMAIN s.loads
       /\ load.st = "pending"
       /\ app' = [app EXCEPT !.sbcList =
                     IF Alive(s, load) THEN [shown EXCEPT !.fetchingRef = FALSE] ELSE shown]
       /\ UNCHANGED <<now, epoch, issued, cachedData, staticDataPromise, populations,
                      staticCalls, sbcVars, ppVars>>

Challenge(id, name, formation, elgReq) ==
    [challengeId |-> id, name |-> name, formation |-> formation, elgReq |-> elgReq]

\* the body /sbs/setId/{setId}/challenges answers with
ChallengesResponse(setId) ==
    [challenges |-> <<
        Challenge(10 * setId + 1, "First", "f442",
                  << [type |-> "CHEMISTRY", eligibilityValue |-> 20],
                     [type |-> "TEAM_RATING_1_TO_100", eligibilityValue |-> 80 + setId] >>),
        Challenge(10 * setId + 2, "Second", "f433", <<>>) >>]

\* api.ts:488-490: elgReq?.find(...)?.eligibilityValue ?? null
RECURSIVE TeamRating(_)
TeamRating(elgReq) ==
    IF elgReq = <<>> THEN Null
    ELSE IF Head(elgReq).type = "TEAM_RATING_1_TO_100" THEN Head(elgReq).eligibilityValue
    ELSE TeamRating(Tail(elgReq))

\* api.ts:484-499: what fetchSBCSetChallengeDetails fulfils with for a set
ChallengeDetails(setId) ==
    LET challenges == ChallengesResponse(setId).challenges
    IN [k \in DOMAIN challenges |->
            [challengeId |-> challenges[k].challengeId, name |-> challenges[k].name,
             formation |-> challenges[k].formation,
             teamRating |-> TeamRating(challenges[k].elgReq)]]

\* the list of sets is on screen (App.tsx:394-437: the token is not blank, no
\* load is shown as running and no error is shown)
ListShown == app.sbcList.mounted /\ ~app.sbcList.loading /\ app.sbcList.error = NoError

\* App.tsx:371-383, handleSBCClick up to its await, on a row of the list
SBCClick(k) ==
    LET s == app.sbcList IN
    /\ ListShown
    /\ s.selectedSet = Null
    /\ k \in DOMAIN s.sbcs
    /\ Len(s.clicks) < MaxClicks
    /\ app' = [app EXCEPT !.sbcList =
                  [s EXCEPT !.selectedSet = [setId |-> s.sbcs[k].setId,
                                             name |-> s.sbcs[k].name],
                            !.challengesLoading = TRUE,
                            !.challengesError = NoError,
                            !.clicks = Append(@, [setId |-> s.sbcs[k].setId,
                                                  instance |-> s.instance,
                                                  st |-> "pending"])]]
    /\ UNCHANGED <<now, epoch, issued, cachedData, staticDataPromise, populations,
                   staticCalls, sbcVars, ppVars>>

\* App.tsx:386-390, handleBackClick
BackClick ==
    /\ ListShown
    /\ app.sbcList.selectedSet # Null
    /\ app' = [app EXCEPT !.sbcList.selectedSet = Null,
                          !.sbcList.challenges = <<>>,
                          !.sbcList.challengesError = NoError]
    /\ UNCHANGED <<now, epoch, issued, cachedData, staticDataPromise, populations,
                   staticCalls, sbcVars, ppVars>>

\* App.tsx:376-383: the challenge request j settles, with the details of its
\* set or an error; a component that is gone ignores it
ChallengesSettle(j, outcome) ==
    LET s == app.sbcList
        done == [s EXCEPT !.clicks[j].st = outcome.st]
    IN /\ j \in DOMAIN s.clicks
       /\ s.clicks[j].st = "pending"
       /\ app' = [app EXCEPT !.sbcList =
                     IF ~Alive(s, s.clicks[j]) THEN done
                     ELSE IF outcome.st = "ok"
                     THEN [done EXCEPT !.challenges = ChallengeDetails(s.clicks[j].setId),
                                       !.challengesLoading = FALSE]
                     ELSE [done EXCEPT !.challengesError = outcome.err,
                                       !.challengesLoading = FALSE]]
       /\ UNCHANGED <<now, epoch, issued, cachedData, staticDataPromise, populations,
                      staticCalls, sbcVars, ppVars>>

NextSbcList ==
    \/ \E sid \in ListTokens : SBCListMounts(sid)
    \/ \E sid \in ListTokens : SBCListSidChanges(sid)
    \/ SBCListUnmounts
    \/ \E k \in 1..MaxLoads, outcome \in {Ok(body) : body \in Rankings}
                                         \cup {Failed(e) : e \in Errors} :
           LoadSettles(k, outcome)
    \/ \E k \in 1..3 : SBCClick(k)
    \/ BackClick
    \/ \E j \in 1..MaxClicks, outcome \in {Ok(Null)} \cup {Failed(e) : e \in Errors} :
           ChallengesSettle(j, outcome)

SpecSbcList == InitStatic /\ [][NextSbcList]_vars

-----------------------------------------------------------------------------
(* Properties of the SBCList component                                      *)

\* C28: whenever a set is selected and challengesLoading is false with no
\* error, the challenges on display are those fetched for the selected set,
\* and when no set is selected the list of challenges is empty.
C28_ChallengesOfSelectedSet ==
    LET s == app.sbcList IN
    s.mounted =>
        /\ (s.selectedSet # Null /\ ~s.challengesLoading /\ s.challengesError = NoError) =>
               s.challenges = ChallengeDetails(s.selectedSet.setId)
        /\ s.selectedSet = Null => s.challenges = <<>>

\* the token, the mounting and the ranking loads of SBCList alone
NextSbcLoads ==
    \/ \E sid \in ListTokens : SBCListMounts(sid)
    \/ \E sid \in ListTokens : SBCListSidChanges(sid)
    \/ SBCListUnmounts
    \/ \E k \in 1..MaxLoads, outcome \in {Ok(body) : body \in Rankings}
                                         \cup {Failed(e) : e \in Errors} :
           LoadSettles(k, outcome)

SpecSbcLoads == InitStatic /\ [][NextSbcLoads]_vars

\* the loads that settle in this step
LoadsSettling ==
    {k \in DOMAIN app.sbcList.loads :
        app.sbcList.loads[k].st = "pending" /\ app'.sbcList.loads[k].st # "pending"}

\* load k was started for a token that has been replaced since, or by a
\* component that has been unmounted since
Superseded(k) ==
    \/ ~app.sbcList.mounted
    \/ app.sbcList.loads[k].instance # app.sbcList.instance
    \/ k # Len(app.sbcList.loads)

\* the token of SBCList changes to a non-blank value in this step, or the
\* component is mounted with one
TokenArrives ==
    /\ app'.sbcList.mounted
    /\ ~app.sbcList.mounted \/ app'.sbcList.sid # app.sbcList.sid

\* C29: the result or error of a load started before the token changed or the
\* component was unmounted is never written to sbcs or error (nor to loading),
\* and every change to a non-blank token, and every mount, starts a load for
\* that token whether or not an earlier load is still in flight.
C29_StaleLoadIgnored ==
    [][/\ \A k \in LoadsSettling :
              Superseded(k) =>
                  /\ app'.sbcList.sbcs = app.sbcList.sbcs
                  /\ app'.sbcList.error = app.sbcList.error
                  /\ app'.sbcList.loading = app.sbcList.loading
       /\ TokenArrives =>
              /\ Len(app'.sbcList.loads) = Len(app.sbcList.loads) + 1
              /\ app'.sbcList.loads[Len(app'.sbcList.loads)] =
                     [sid |-> app'.sbcList.sid, instance |-> app'.sbcList.instance,
                      cancelled |-> FALSE, st |-> "pending", body |-> Null]
              /\ app'.sbcList.loading]_vars

\* the load for sidA answered with a ranking after the token had changed to
\* sidB, whose load then failed: the error is shown and no ranking
C29_Witness ==
    LET s == app.sbcList IN
    /\ s.mounted /\ s.sid = "sidB "
    /\ Len(s.loads) = 2
    /\ s.loads[1].sid = "sidA" /\ s.loads[1].cancelled /\ s.loads[1].st = "ok"
    /\ s.loads[1].body # <<>>
    /\ s.loads[2].sid = "sidB " /\ s.loads[2].st = "failed"
    /\ s.sbcs = <<>>
    /\ s.error # NoError
    /\ ~s.loading

====
